---- MODULE Spec2Model ----
(***************************************************************************)
(* WebNN execution provider of onnxruntime: the graph lowering engine      *)
(* (ModelBuilder), the operator translators it dispatches to, and the      *)
(* compiled Model's Predict.                                               *)
(*                                                                         *)
(* Spec        one compilation, ModelBuilder::Compile, over a host graph   *)
(*             drawn from a bounded family of ONNX subgraphs.              *)
(* SpecPredict callers running Model::Predict on one compiled model.       *)
(***************************************************************************)
EXTENDS Integers, Sequences, FiniteSets, TLC

(***************************************************************************)
(* Bounds of the model.                                                    *)
(***************************************************************************)
\* Largest number of nodes of a host subgraph.
MaxNodes == 3
\* Predict calls each caller thread makes.
MaxCalls == 2
\* Caller threads sharing the compiled model.
NumThreads == 2
\* Calls of GetSupportedNodes on one host graph.
MaxPartitions == 2

(***************************************************************************)
(* Sequence helpers.                                                       *)
(***************************************************************************)
Elems(s) == {s[i] : i \in DOMAIN s}

RECURSIVE SelectSeqIn(_, _)
SelectSeqIn(s, S) ==
  IF s = <<>> THEN <<>>
  ELSE (IF Head(s) \in S THEN <<Head(s)>> ELSE <<>>) \o SelectSeqIn(Tail(s), S)

Last(s) == s[Len(s)]

(***************************************************************************)
(* The host graph: tensors.  A NodeArg has an element type (or none) and a *)
(* shape (or none); a dimension without dim_value is written NoDim.        *)
(***************************************************************************)
NoShape == "no-shape"
NoDim == -1
NoType == "UNDEFINED"

TensorInfo ==
  [ X   |-> [dtype |-> "FLOAT", shape |-> <<1, 1, 2, 2>>],
    XI  |-> [dtype |-> "INT32", shape |-> <<2, 2>>],
    XD  |-> [dtype |-> "FLOAT", shape |-> <<NoDim, 2>>],
    SLI |-> [dtype |-> "INT32", shape |-> <<1>>],
    W   |-> [dtype |-> "FLOAT", shape |-> <<1, 1, 1, 1>>],
    B   |-> [dtype |-> "FLOAT", shape |-> <<1>>],
    WI  |-> [dtype |-> "INT32", shape |-> <<1, 1, 2, 2>>],
    sf  |-> [dtype |-> "FLOAT", shape |-> <<>>],
    lf  |-> [dtype |-> "FLOAT", shape |-> <<>>],
    df  |-> [dtype |-> "FLOAT", shape |-> <<>>],
    si  |-> [dtype |-> "INT64", shape |-> <<>>],
    li  |-> [dtype |-> "INT64", shape |-> <<>>],
    di  |-> [dtype |-> "INT64", shape |-> <<>>],
    sd  |-> [dtype |-> "DOUBLE", shape |-> <<>>],
    SL  |-> [dtype |-> "INT32", shape |-> <<1>>],
    GW  |-> [dtype |-> "FLOAT", shape |-> <<1, 3, 2>>],
    GR  |-> [dtype |-> "FLOAT", shape |-> <<1, 3, 1>>],
    GB  |-> [dtype |-> "FLOAT", shape |-> <<1, 6>>],
    rg  |-> [dtype |-> "FLOAT", shape |-> <<2>>],
    c   |-> [dtype |-> "FLOAT", shape |-> <<1, 1, 2, 2>>],
    bn  |-> [dtype |-> "FLOAT", shape |-> <<1, 1, 2, 2>>],
    gy  |-> [dtype |-> "FLOAT", shape |-> <<1, 1, 1, 1>>],
    gh  |-> [dtype |-> "FLOAT", shape |-> <<1, 1, 1>>],
    r   |-> [dtype |-> "FLOAT", shape |-> <<1, 1, 2, 2>>],
    lr  |-> [dtype |-> "FLOAT", shape |-> <<1, 1, 2, 2>>],
    sg  |-> [dtype |-> "FLOAT", shape |-> <<1, 1, 2, 2>>],
    cc  |-> [dtype |-> "FLOAT", shape |-> <<1, 2, 2, 2>>],
    mm  |-> [dtype |-> "FLOAT", shape |-> <<>>],
    ad  |-> [dtype |-> "FLOAT", shape |-> NoShape],
    GA  |-> [dtype |-> "FLOAT", shape |-> <<2, 3>>],
    B34 |-> [dtype |-> "FLOAT", shape |-> <<3, 4>>],
    B43 |-> [dtype |-> "FLOAT", shape |-> <<4, 3>>],
    C4  |-> [dtype |-> "FLOAT", shape |-> <<4>>],
    C3  |-> [dtype |-> "FLOAT", shape |-> <<3>>],
    C0  |-> [dtype |-> "FLOAT", shape |-> <<>>],
    C24 |-> [dtype |-> "FLOAT", shape |-> <<2, 4>>],
    C13 |-> [dtype |-> "FLOAT", shape |-> <<1, 3>>],
    CN  |-> [dtype |-> "FLOAT", shape |-> NoShape],
    gm  |-> [dtype |-> "FLOAT", shape |-> <<2, 4>>],
    X4  |-> [dtype |-> "FLOAT", shape |-> <<1, 1, 4, 4>>],
    X5  |-> [dtype |-> "FLOAT", shape |-> <<1, 1, 5, 5>>],
    W2  |-> [dtype |-> "FLOAT", shape |-> <<1, 1, 2, 2>>],
    W3  |-> [dtype |-> "FLOAT", shape |-> <<1, 1, 3, 3>>],
    XB  |-> [dtype |-> "FLOAT", shape |-> <<1, 6>>],
    X3  |-> [dtype |-> "FLOAT", shape |-> <<2, 2, 2>>],
    SL2 |-> [dtype |-> "INT32", shape |-> <<2>>],
    SLD |-> [dtype |-> "INT32", shape |-> <<2>>],
    XS  |-> [dtype |-> "FLOAT", shape |-> <<1, NoDim, 2, 2>>],
    XN  |-> [dtype |-> "FLOAT", shape |-> NoShape],
    bm  |-> [dtype |-> "FLOAT", shape |-> <<1>>],
    gh2 |-> [dtype |-> "FLOAT", shape |-> <<1, 1, 1>>] ]

\* Names that are graph inputs when a node consumes them, in the host's order.
InputOrder == <<"X", "XI", "XD", "SLI", "W", "GA", "X4", "X5", "XB", "X3", "XS", "XN">>
\* Names of the initializer table (W is also listed as a graph input, as
\* graphs of ONNX IR version 3 list their initializers).
InitializerNames ==
  {"W", "B", "WI", "sf", "lf", "df", "si", "li", "di", "sd", "SL", "GW", "GR", "GB",
   "B34", "B43", "C4", "C3", "C0", "C24", "C13", "CN", "W2", "W3", "SL2", "SLD"}

NoAttrs == [a \in {} |-> 0]

\* Values of the integer initializers the translators read at compile time.
TensorData ==
  [ sf |-> <<0>>, lf |-> <<2>>, df |-> <<1>>,
    si |-> <<0>>, li |-> <<2>>, di |-> <<1>>,
    sd |-> <<0>>, SL |-> <<1>>, SL2 |-> <<3, 3>>, SLD |-> <<3, 5>> ]

Node(i, name, op, in, out, attrs) ==
  [idx |-> i, name |-> name, op |-> op, in |-> in, out |-> out, attrs |-> attrs]

(***************************************************************************)
(* Node templates, grouped by the tensor they produce; the groups are      *)
(* listed in a topological order of the tensors they exchange.  A node's   *)
(* index (Node::Index) is the host's, and need not follow that order.      *)
(***************************************************************************)
GruActs == [activations |-> <<"Sigmoid", "Tanh">>]

Groups ==
  << { Node(7, "range", "Range", <<"sf", "lf", "df">>, <<"rg">>, NoAttrs),
       Node(7, "range", "Range", <<"si", "li", "di">>, <<"rg">>, NoAttrs),
       Node(7, "range", "Range", <<"sd", "lf", "df">>, <<"rg">>, NoAttrs) },
     { Node(5, "conv", "Conv", <<"X", "W">>, <<"c">>, NoAttrs),
       Node(5, "conv", "Conv", <<"X", "W", "B">>, <<"c">>, NoAttrs),
       Node(5, "convT", "ConvTranspose", <<"X", "W">>, <<"c">>, NoAttrs) },
     { Node(6, "bnorm", "BatchNormalization", <<"X", "B", "B", "B", "B">>, <<"bn">>, NoAttrs),
       Node(6, "bnorm", "BatchNormalization", <<"c", "B", "B", "B", "B">>, <<"bn">>, NoAttrs) },
     { Node(4, "gru", "GRU", <<"X", "GW", "GR", "GB", "SL">>, <<"gy", "gh">>, GruActs),
       Node(4, "gru", "GRU", <<"X", "GW", "GR", "GB", "SLI">>, <<"gy", "gh">>, GruActs),
       Node(4, "gru", "GRU", <<"X", "GW", "GR">>, <<"gy", "gh">>, NoAttrs) },
     { Node(2, "relu", "Relu", <<"c">>, <<"r">>, NoAttrs),
       Node(2, "relu", "Relu", <<"bn">>, <<"r">>, NoAttrs),
       Node(2, "relu", "Relu", <<"X">>, <<"r">>, NoAttrs),
       Node(2, "relu", "Relu", <<"XI">>, <<"r">>, NoAttrs),
       Node(2, "relu", "Relu", <<"sf">>, <<"r">>, NoAttrs) },
     { Node(3, "lrelu", "LeakyRelu", <<"c">>, <<"lr">>, [alpha |-> 1]),
       Node(3, "lrelu", "LeakyRelu", <<"XD">>, <<"lr">>, NoAttrs) },
     { Node(1, "sigm", "Sigmoid", <<"c">>, <<"sg">>, NoAttrs) },
     { Node(8, "concat", "Concat", <<"X", "W">>, <<"cc">>, NoAttrs),
       Node(8, "concat", "Concat", <<"c", "X">>, <<"cc">>, [axis |-> -3]),
       Node(8, "concat", "Concat", <<"X", "SL">>, <<"cc">>, NoAttrs),
       Node(8, "concat", "Concat", <<"X", "WI">>, <<"cc">>, NoAttrs),
       Node(8, "concat", "Concat", <<"r", "lr">>, <<"cc">>, NoAttrs) },
     { Node(9, "matmul", "MatMul", <<"sf", "lf">>, <<"mm">>, NoAttrs) },
     { Node(10, "add", "Add", <<"c", "X">>, <<"ad">>, NoAttrs) } >>

RECURSIVE NodeSeqs(_, _)
\* The node sequences that take at most n nodes from groups k, k+1, ...
NodeSeqs(k, n) ==
  IF k > Len(Groups) \/ n = 0 THEN {<<>>}
  ELSE NodeSeqs(k + 1, n)
       \cup {<<v>> \o s : v \in Groups[k], s \in NodeSeqs(k + 1, n - 1)}

Produced(ns) == UNION {Elems(ns[i].out) : i \in DOMAIN ns}
Consumed(ns) == UNION {Elems(ns[i].in) : i \in DOMAIN ns}

\* Every tensor a node consumes is an initializer, a graph input or the
\* output of a node before it: the order is topological.
WellFormed(ns) ==
  /\ ns # <<>>
  /\ \A i \in DOMAIN ns : \A t \in Elems(ns[i].in) :
        \/ t \in InitializerNames \cup Elems(InputOrder)
        \/ \E j \in 1..(i - 1) : t \in Elems(ns[j].out)

AllNames == DOMAIN TensorInfo
NameOrder ==
  <<"rg", "c", "bn", "gy", "gh", "r", "lr", "sg", "cc", "mm", "ad", "gm", "bm", "gh2">>

\* The host graph of a node sequence.  Its outputs are the tensors no node
\* of the subgraph consumes and, with exposeAll, every produced tensor.
MakeGraph(ns, exposeAll) ==
  [ nodes   |-> [i \in {ns[p].idx : p \in DOMAIN ns} |->
                   ns[CHOOSE p \in DOMAIN ns : ns[p].idx = i]],
    topo    |-> [p \in DOMAIN ns |-> ns[p].idx],
    inits   |-> Consumed(ns) \cap InitializerNames,
    inputs  |-> SelectSeqIn(InputOrder, Consumed(ns)),
    outputs |-> SelectSeqIn(NameOrder,
                  IF exposeAll THEN Produced(ns) ELSE Produced(ns) \ Consumed(ns)),
    info    |-> TensorInfo,
    data    |-> TensorData ]

(***************************************************************************)
(* Support Query Layer and attribute access.                               *)
(***************************************************************************)
HasAttr(node, a) == a \in DOMAIN node.attrs
Get(node, a, default) == IF HasAttr(node, a) THEN node.attrs[a] ELSE default

Contains(S, x) == x \in S

RECURSIVE Product(_)
Product(shape) == IF shape = <<>> THEN 1 ELSE Head(shape) * Product(Tail(shape))

\* GetShape: false when the NodeArg has no shape or a symbolic dimension.
GetShape(g, t) ==
  /\ g.info[t].shape # NoShape
  /\ \A d \in DOMAIN g.info[t].shape : g.info[t].shape[d] # NoDim

Dims(g, t) == g.info[t].shape

(***************************************************************************)
(* Operator Translator Registry.                                           *)
(***************************************************************************)
OpBuilders ==
  {"Relu", "LeakyRelu", "BatchNormalization", "Concat", "Conv", "ConvTranspose",
   "Gemm", "MatMul", "GRU", "Range"}

\* The translator family of an operator type, "none" when not registered.
GetOpBuilder(node) ==
  IF node.op \in OpBuilders
  THEN CASE node.op \in {"Relu", "LeakyRelu"} -> "Activation"
         [] node.op \in {"Conv", "ConvTranspose"} -> "Conv"
         [] node.op \in {"Gemm", "MatMul"} -> "Gemm"
         [] OTHER -> node.op
  ELSE "none"

(***************************************************************************)
(* SupportCheck of each translator (IsOpSupportedImpl).                    *)
(***************************************************************************)
ConvIsOpSupportedImpl(g, node) ==
  LET weight_name == node.in[2] IN
  IF Contains(g.inits, weight_name)
  THEN Len(Dims(g, weight_name)) = 4
  ELSE FALSE

BatchNormSpatialIgnored(node) == 1
BatchNormSpatial(node) == Get(node, "spatial", 1)

BatchNormIsOpSupportedImpl(g, node) ==
  IF Len(node.out) # 1 THEN FALSE
  ELSE IF ~GetShape(g, node.in[1]) THEN FALSE
  ELSE IF Len(Dims(g, node.in[1])) # 4 THEN FALSE
  ELSE IF BatchNormSpatial(node) # 1 THEN FALSE
  ELSE /\ Contains(g.inits, node.in[2])
       /\ Contains(g.inits, node.in[3])
       /\ Contains(g.inits, node.in[4])
       /\ Contains(g.inits, node.in[5])

ConcatIsOpSupportedImpl(g, node) == ~(Len(node.in) < 2)

\* The dimension of B the trailing dimension of C is compared with.
GemmBiasDimOfB(transB, b_shape) == b_shape[2]

GemmBiasDim(transB, b_shape) == IF transB = 0 THEN b_shape[2] ELSE b_shape[1]

GemmIsOpSupportedImpl(g, node) ==
  IF node.op = "Gemm"
  THEN LET a == node.in[1]
           b == node.in[2]
       IN
       IF ~GetShape(g, a) THEN FALSE
       ELSE IF Len(Dims(g, a)) # 2 THEN FALSE
       ELSE IF Product(Dims(g, a)) = 0 THEN FALSE
       ELSE IF ~GetShape(g, b) THEN FALSE
       ELSE IF Len(Dims(g, b)) # 2 THEN FALSE
       ELSE IF Product(Dims(g, b)) = 0 THEN FALSE
       ELSE IF Len(node.in) = 3
       THEN LET cn == node.in[3] IN
            IF ~GetShape(g, cn) THEN FALSE
            ELSE IF Len(Dims(g, cn)) = 0 THEN TRUE
            ELSE LET c_size == Dims(g, cn)[Len(Dims(g, cn))]
                     transB == Get(node, "transB", 0)
                 IN ~(c_size # GemmBiasDim(transB, Dims(g, b)))
       ELSE TRUE
  ELSE TRUE

DefaultGruActivations == <<"Sigmod", "Tanh">>

GruIsOpSupportedImpl(g, node) ==
  LET seqOk ==
        IF Len(node.in) > 4 /\ Contains(g.inits, node.in[5])
        THEN LET raw == g.data[node.in[5]]
                 sequenceLens_size == Product(Dims(g, node.in[5]))
             IN IF sequenceLens_size > 1
                THEN \A i \in 2..sequenceLens_size : raw[i] = raw[1]
                ELSE TRUE
        ELSE TRUE
      activations == Get(node, "activations", DefaultGruActivations)
      direction == Get(node, "direction", "forward")
  IN
  IF ~seqOk THEN FALSE
  ELSE IF \E a \in {"activation_alpha", "activation_beta", "clip"} : HasAttr(node, a) THEN FALSE
  ELSE IF Len(activations) = 4 /\ direction # "bidirectional" THEN FALSE
  ELSE IF Get(node, "linear_before_reset", 0) # 0 THEN FALSE
  ELSE IF Get(node, "layout", 0) = 1 THEN FALSE
  ELSE TRUE

\* An unsupported data type is only logged: the check still returns true.
RangeIsOpSupportedImpl(g, node) ==
  IF Len(node.in) # 3 THEN FALSE
  ELSE IF \/ ~Contains(g.inits, node.in[1])
          \/ ~Contains(g.inits, node.in[2])
          \/ ~Contains(g.inits, node.in[3]) THEN FALSE
  ELSE TRUE

IsOpSupportedImpl(g, node) ==
  CASE GetOpBuilder(node) = "Activation" -> TRUE
    [] GetOpBuilder(node) = "Conv" -> ConvIsOpSupportedImpl(g, node)
    [] GetOpBuilder(node) = "BatchNormalization" -> BatchNormIsOpSupportedImpl(g, node)
    [] GetOpBuilder(node) = "Concat" -> ConcatIsOpSupportedImpl(g, node)
    [] GetOpBuilder(node) = "Gemm" -> GemmIsOpSupportedImpl(g, node)
    [] GetOpBuilder(node) = "GRU" -> GruIsOpSupportedImpl(g, node)
    [] GetOpBuilder(node) = "Range" -> RangeIsOpSupportedImpl(g, node)
    [] OTHER -> FALSE

\* The nodes of g in topological order.
NodeAt(g, p) == g.nodes[g.topo[p]]
NumNodes(g) == Len(g.topo)

\* Every node of g passes its translator's SupportCheck.
AllSupported(g) == \A p \in 1..NumNodes(g) : IsOpSupportedImpl(g, NodeAt(g, p))

\* The host graphs compiled: each node either has no translator or passes its
\* translator's SupportCheck (the partition hands over accepted nodes only).
Graphs ==
  { MakeGraph(ns, e) : ns \in {s \in NodeSeqs(1, MaxNodes) : WellFormed(s)},
                       e \in BOOLEAN }

CompiledGraphs ==
  { g \in Graphs : \A p \in 1..NumNodes(g) :
       GetOpBuilder(NodeAt(g, p)) = "none" \/ IsOpSupportedImpl(g, NodeAt(g, p)) }

(***************************************************************************)
(* Status values.  A C++ exception that escapes (std::out_of_range from    *)
(* unordered_map::at) is recorded with code "EXCEPTION".                   *)
(***************************************************************************)
StatusOK == [code |-> "OK", kind |-> "OK", subject |-> "", optype |-> ""]
MakeStatus(code, kind, subject, optype) ==
  [code |-> code, kind |-> kind, subject |-> subject, optype |-> optype]
IsOK(st) == st.code = "OK"

(***************************************************************************)
(* Backend operands and activation-operator handles.                       *)
(***************************************************************************)
Operand(kind, args, opts) == [kind |-> kind, args |-> args, opts |-> opts]
\* A default-constructed operand: what operands_[name] inserts for a new name.
NullOperand == Operand("null", <<>>, <<>>)

NoActivation == [kind |-> "none", node |-> 0]
ActivationOperator(kind, idx) == [kind |-> kind, node |-> idx]

Put(f, k, v) == [n \in DOMAIN f \cup {k} |-> IF n = k THEN v ELSE f[n]]

\* Index of the first name of names that has no operand, 0 when all have one.
RECURSIVE FirstMissing(_, _, _)
FirstMissing(operands, names, i) ==
  IF i > Len(names) THEN 0
  ELSE IF names[i] \notin DOMAIN operands THEN i
  ELSE FirstMissing(operands, names, i + 1)

\* ModelBuilder::GetOperand over a sequence of names: the operands, or the
\* out_of_range that wnn_operands_.at raises for the first name without one.
GetOperands(operands, names) == [i \in DOMAIN names |-> operands[names[i]]]
OutOfRange(name) == MakeStatus("EXCEPTION", "OutOfRange", name, "")

\* What a translator hands back: its status, the names it resolved through
\* GetOperand, and the builder's operands and fused-name set after it.
Lowered(st, resolved, operands, fused) ==
  [status |-> st, resolved |-> resolved, operands |-> operands, fused |-> fused]

(***************************************************************************)
(* ModelBuilder::FindActivation.                                           *)
(***************************************************************************)
RECURSIVE SetToSortedSeq(_)
SetToSortedSeq(S) ==
  IF S = {} THEN <<>>
  ELSE LET m == CHOOSE v \in S : \A w \in S : v <= w
       IN <<m>> \o SetToSortedSeq(S \ {m})

RECURSIVE EdgesTo(_, _, _)
EdgesTo(node, dst, p) ==
  IF p > Len(dst.in) THEN <<>>
  ELSE (IF dst.in[p] \in Elems(node.out)
        THEN <<[dst |-> dst.idx, input |-> dst.in[p]]>> ELSE <<>>)
       \o EdgesTo(node, dst, p + 1)

RECURSIVE EdgesOver(_, _, _)
EdgesOver(g, node, idxs) ==
  IF idxs = <<>> THEN <<>>
  ELSE EdgesTo(node, g.nodes[Head(idxs)], 1) \o EdgesOver(g, node, Tail(idxs))

\* The output edges of a node, in the order of the destination's node index.
OutputEdges(g, node) == EdgesOver(g, node, SetToSortedSeq(DOMAIN g.nodes \ {node.idx}))

RECURSIVE FindActivationLoop(_, _, _, _)
FindActivationLoop(activation_nodes, output, edges, fused_op) ==
  IF edges = <<>> THEN [returned |-> FALSE, op |-> fused_op]
  ELSE LET e == Head(edges) IN
       IF Contains(DOMAIN activation_nodes, e.dst)
       THEN FindActivationLoop(activation_nodes, output, Tail(edges),
                               IF output = e.input THEN activation_nodes[e.dst] ELSE fused_op)
       ELSE IF output = e.input
            THEN [returned |-> TRUE, op |-> NoActivation]
            ELSE FindActivationLoop(activation_nodes, output, Tail(edges), fused_op)

FindActivation(g, activation_nodes, fused, node, output) ==
  LET l == FindActivationLoop(activation_nodes, output, OutputEdges(g, node), NoActivation) IN
  IF l.returned THEN [op |-> NoActivation, fused |-> fused]
  ELSE IF l.op # NoActivation
       THEN IF output \in Elems(g.outputs)
            THEN [op |-> NoActivation, fused |-> fused]
            ELSE [op |-> l.op, fused |-> fused \cup {output}]
       ELSE [op |-> l.op, fused |-> fused]

(***************************************************************************)
(* Lower of each translator (AddToModelBuilderImpl).  mb is the builder:   *)
(* [g, operands, activation_nodes, fused].                                 *)
(***************************************************************************)
\* The translator resolved every name of names: carry on with body.
Thrown(mb, names) ==
  LET k == FirstMissing(mb.operands, names, 1) IN
  Lowered(OutOfRange(names[k]), SubSeq(names, 1, k), mb.operands, mb.fused)
Missing(mb, names) == FirstMissing(mb.operands, names, 1) # 0

ActivationAddToModelBuilderImpl(mb, node) ==
  LET names == <<node.in[1]>> IN
  IF Missing(mb, names) THEN Thrown(mb, names)
  ELSE LET input == mb.operands[node.in[1]]
           output ==
             IF node.op = "Relu"
             THEN IF Contains(mb.fused, node.in[1]) THEN input
                  ELSE Operand("relu", <<input>>, <<>>)
             ELSE IF Contains(mb.fused, node.in[1]) THEN input
                  ELSE Operand("leakyRelu", <<input>>, [alpha |-> Get(node, "alpha", 0)])
       IN
       IF node.op \in {"Relu", "LeakyRelu"}
       THEN Lowered(StatusOK, names, Put(mb.operands, node.out[1], output), mb.fused)
       ELSE Lowered(MakeStatus("INVALID_ARGUMENT", "UnknownOp", node.name, node.op),
                    names, mb.operands, mb.fused)

BatchNormAddToModelBuilderImpl(mb, node) ==
  LET names == <<node.in[1], node.in[2], node.in[3], node.in[4], node.in[5]>> IN
  IF Missing(mb, names) THEN Thrown(mb, names)
  ELSE LET ops == GetOperands(mb.operands, names)
           act == FindActivation(mb.g, mb.activation_nodes, mb.fused, node, node.out[1])
           output == Operand("batchNormalization", <<ops[1], ops[4], ops[5]>>,
                             [scale |-> ops[2], bias |-> ops[3],
                              epsilon |-> Get(node, "epsilon", "1e-5"),
                              activation |-> act.op])
       IN Lowered(StatusOK, names, Put(mb.operands, node.out[1], output), act.fused)

\* HandleNegativeAxis: axis < 0 ? axis + rank : axis.
HandleNegativeAxis(axis, rank) == IF axis < 0 THEN axis + rank ELSE axis

ConcatAddToModelBuilderImpl(mb, node) ==
  IF ~GetShape(mb.g, node.in[1])
  THEN Lowered(MakeStatus("INVALID_ARGUMENT", "CannotGetShape", node.name, node.op),
               <<>>, mb.operands, mb.fused)
  ELSE LET rank == Len(Dims(mb.g, node.in[1]))
           axis == HandleNegativeAxis(Get(node, "axis", 1), rank)
           names == node.in
       IN
       IF Missing(mb, names) THEN Thrown(mb, names)
       ELSE Lowered(StatusOK, names,
                    Put(mb.operands, node.out[1],
                        Operand("concat", GetOperands(mb.operands, names), [axis |-> axis])),
                    mb.fused)

\* Integer division of C++: the quotient is truncated towards zero (b > 0).
TruncDiv(a, b) == IF a >= 0 THEN a \div b ELSE -((-a) \div b)

\* ComputePad for SAME_UPPER and SAME_LOWER: the padding at the head and at
\* the tail of one spatial axis that makes the output ceil(in_dim / stride).
ComputePad(in_dim, stride, kernel, pad_type) ==
  LET legacy_target_size == (in_dim + stride - 1) \div stride
      pad_needed == (legacy_target_size - 1) * stride + kernel - in_dim
      pad_head == IF pad_type = "SAME_LOWER" THEN TruncDiv(pad_needed + 1, 2)
                  ELSE TruncDiv(pad_needed, 2)
  IN <<pad_head, pad_needed - pad_head>>

\* The SAME padding of a 2-D convolution, as ONNX lists pads: top, left,
\* bottom, right.
ComputeConvPads(input_shape, weight_size_y, weight_size_x, onnx_strides, pad_type) ==
  LET y == ComputePad(input_shape[3], onnx_strides[1], weight_size_y, pad_type)
      x == ComputePad(input_shape[4], onnx_strides[2], weight_size_x, pad_type)
  IN <<y[1], x[1], y[2], x[2]>>

\* HandleAutoPad: explicit pads that are the SAME_UPPER or the SAME_LOWER
\* padding are expressed as that mode (SAME_UPPER tried first); the padding
\* is computed for unit dilations only.  A given auto_pad is kept.
HandleAutoPad(input_shape, weight_size_y, weight_size_x, onnx_pads, onnx_strides, onnx_dilations, auto_pad_type) ==
  IF auto_pad_type = "NOTSET" /\ onnx_dilations = <<1, 1>>
  THEN IF onnx_pads = ComputeConvPads(input_shape, weight_size_y, weight_size_x,
                                      onnx_strides, "SAME_UPPER")
       THEN "SAME_UPPER"
       ELSE IF onnx_pads = ComputeConvPads(input_shape, weight_size_y, weight_size_x,
                                           onnx_strides, "SAME_LOWER")
       THEN "SAME_LOWER"
       ELSE auto_pad_type
  ELSE auto_pad_type

\* SetConvBaseOptions: the padding options set for the resolved mode.
ConvPaddingExplicit(auto_pad_type, pads) == [padding |-> pads]

ConvPadding(auto_pad_type, pads) ==
  IF auto_pad_type = "SAME_UPPER" \/ auto_pad_type = "SAME_LOWER"
  THEN IF auto_pad_type = "SAME_LOWER"
       THEN [autoPad |-> "same-lower"]
       ELSE [autoPad |-> "same-upper"]
  ELSE [padding |-> pads]

\* The mode HandleAutoPad resolves for a Conv or ConvTranspose node.
ConvAutoPadType(g, node) ==
  HandleAutoPad(Dims(g, node.in[1]), Dims(g, node.in[2])[3], Dims(g, node.in[2])[4],
                Get(node, "pads", <<0, 0, 0, 0>>), Get(node, "strides", <<1, 1>>),
                Get(node, "dilations", <<1, 1>>), Get(node, "auto_pad", "NOTSET"))

ConvAddToModelBuilderImpl(mb, node) ==
  LET first == <<node.in[1], node.in[2]>>
      names == IF Len(node.in) > 2 THEN Append(first, node.in[3]) ELSE first
  IN
  IF Missing(mb, first) THEN Thrown(mb, first)
  ELSE IF ~Contains(mb.g.inits, node.in[2])
  THEN Lowered(OutOfRange(node.in[2]), first, mb.operands, mb.fused)
  ELSE IF ~GetShape(mb.g, node.in[1])
  THEN Lowered(MakeStatus("FAIL", "CannotGetShape", node.name, node.op),
               first, mb.operands, mb.fused)
  ELSE IF Missing(mb, names) THEN Thrown(mb, names)
  ELSE LET ops == GetOperands(mb.operands, names)
           act == FindActivation(mb.g, mb.activation_nodes, mb.fused, node, node.out[1])
           output ==
             Operand(IF node.op = "Conv" THEN "conv2d" ELSE "convTranspose2d",
                     ops,
                     [filterLayout |-> IF node.op = "Conv" THEN "oihw" ELSE "iohw",
                      strides |-> Get(node, "strides", <<1, 1>>),
                      dilations |-> Get(node, "dilations", <<1, 1>>),
                      inputLayout |-> "nchw",
                      groups |-> Get(node, "group", 1),
                      activation |-> act.op]
                     @@ ConvPadding(ConvAutoPadType(mb.g, node),
                                    Get(node, "pads", <<0, 0, 0, 0>>)))
       IN Lowered(StatusOK, names, Put(mb.operands, node.out[1], output), act.fused)

GemmAddToModelBuilderImpl(mb, node) ==
  LET first == <<node.in[1], node.in[2]>>
      names == IF node.op # "MatMul" /\ Len(node.in) > 2
               THEN Append(first, node.in[3]) ELSE first
  IN
  IF Missing(mb, names) THEN Thrown(mb, names)
  ELSE LET ops == GetOperands(mb.operands, names)
           output ==
             IF node.op = "MatMul" THEN Operand("matmul", ops, <<>>)
             ELSE Operand("gemm", ops,
                          [aTranspose |-> Get(node, "transA", 0) = 1,
                           bTranspose |-> Get(node, "transB", 0) = 1,
                           alpha |-> Get(node, "alpha", 1),
                           beta |-> Get(node, "beta", 1)])
       IN Lowered(StatusOK, names, Put(mb.operands, node.out[1], output), mb.fused)

\* The first activation name of acts the translator has no backend operator
\* for, 0 when it has one for each.
RECURSIVE FirstUnsupportedActivation(_, _)
FirstUnsupportedActivation(acts, i) ==
  IF i > Len(acts) THEN 0
  ELSE IF acts[i] \notin {"Relu", "Sigmoid", "Tanh"} THEN i
  ELSE FirstUnsupportedActivation(acts, i + 1)

\* The backend activation operator built for a name of the activations list.
GruActivationOperator(activation) ==
  CASE activation = "Relu" -> "ReluOperator"
    [] activation = "Sigmoid" -> "SigmoidOperator"
    [] activation = "Tanh" -> "TanhOperator"

\* OutputDefs()[1] of a node with one output is a read past the end of the
\* vector: the program stops at the read, or goes on with what it finds
\* there, a name of no tensor or the name of another NodeArg of the graph.
Trap == "trap"
Garbage == "?"
OutputDefsReads(node) ==
  IF GetOpBuilder(node) = "GRU" /\ Len(node.out) < 2
  THEN {Trap, Garbage, node.in[1]}
  ELSE {"none"}

\* The steps of the backend call: the leading dimension of the input, or
\* the first value of sequence_lens when that input is an initializer.
GruStepsOfInput(g, node) == Dims(g, node.in[1])[1]
GruSteps(g, node) ==
  IF Len(node.in) > 4 /\ Contains(g.inits, node.in[5])
  THEN g.data[node.in[5]][1]
  ELSE Dims(g, node.in[1])[1]

GruAddToModelBuilderImpl(mb, node) ==
  LET g == mb.g
      first == <<node.in[1], node.in[2], node.in[3]>>
      hasBias == Len(node.in) > 3 /\ Contains(g.inits, node.in[4])
      names == first \o (IF hasBias THEN <<node.in[4]>> ELSE <<>>)
                     \o (IF Len(node.in) > 5 THEN <<node.in[6]>> ELSE <<>>)
      activations == Get(node, "activations", DefaultGruActivations)
      bad == FirstUnsupportedActivation(activations, 1)
  IN
  IF Missing(mb, first) THEN Thrown(mb, first)
  ELSE IF ~GetShape(g, node.in[1])
  THEN Lowered(MakeStatus("FAIL", "CannotGetShape", node.name, node.op),
               first, mb.operands, mb.fused)
  ELSE IF ~Contains(g.inits, node.in[3])
  THEN Lowered(OutOfRange(node.in[3]), first, mb.operands, mb.fused)
  ELSE IF Missing(mb, names) THEN Thrown(mb, names)
  ELSE IF bad # 0
  THEN Lowered(MakeStatus("INVALID_ARGUMENT", "UnsupportedActivation", activations[bad], node.op),
               names, mb.operands, mb.fused)
  ELSE LET ops == GetOperands(mb.operands, names)
           steps == GruSteps(g, node)
           hiddenSize == Get(node, "hidden_size", Dims(g, node.in[3])[3])
           split(k) == Operand("split", <<mb.operands[node.in[4]]>>,
                               [splits |-> 2, axis |-> 1, part |-> k])
           direction == Get(node, "direction", "forward")
           options ==
             [ steps |-> steps, hiddenSize |-> hiddenSize,
               bias |-> IF hasBias THEN split(0) ELSE NullOperand,
               recurrentBias |-> IF hasBias THEN split(1) ELSE NullOperand,
               initialHiddenState |->
                 IF Len(node.in) > 5 THEN mb.operands[node.in[6]] ELSE NullOperand,
               resetAfter |-> Get(node, "linear_before_reset", 0) # 0,
               returnSequence |-> TRUE,
               direction |-> IF direction = "reverse" THEN "backward"
                             ELSE IF direction = "bidirectional" THEN "both"
                             ELSE "forward",
               layout |-> IF Get(node, "layout", 0) = 1 THEN "rzn" ELSE "zrn",
               activations |->
                 [i \in DOMAIN activations |-> GruActivationOperator(activations[i])] ]
           gru(k) == Operand("gru", <<ops[1], ops[2], ops[3]>>,
                             [options |-> options, result |-> k])
           first_added == Put(mb.operands, node.out[1], gru(1))
       IN IF Len(node.out) > 1
          THEN Lowered(StatusOK, names, Put(first_added, node.out[2], gru(0)), mb.fused)
          ELSE IF mb.read = Trap
          THEN Lowered(MakeStatus("TRAP", "OutOfBoundsRead", node.name, node.op),
                       names, first_added, mb.fused)
          ELSE Lowered(StatusOK, names, Put(first_added, mb.read, gru(0)), mb.fused)

\* ceil(a / b) for b # 0.
CeilDiv(a, b) == -((-a) \div b)
Max(a, b) == IF a >= b THEN a ELSE b

\* The element types CopyInputData reads.
RangeDataTypes == {"FLOAT", "INT32", "INT64"}

\* The spacing of the float values (24 bits of precision) around magnitude a.
RECURSIVE FloatUlp(_)
FloatUlp(a) == IF a < 2^24 THEN 1 ELSE 2 * FloatUlp(a \div 2)

\* static_cast<float> of an integer, and the rounding of a float result: the
\* nearest float, ties to the even one.
ToFloat(n) ==
  LET a == IF n < 0 THEN -n ELSE n
      u == FloatUlp(a)
      q == a \div u
      r == a % u
      m == IF 2 * r > u \/ (2 * r = u /\ q % 2 = 1) THEN (q + 1) * u ELSE q * u
  IN IF n < 0 THEN -m ELSE m

\* CopyInputData: the first element of the initializer, as a float.
CopyInputData(g, input_name) ==
  IF g.info[input_name].dtype = "FLOAT" THEN g.data[input_name][1]
  ELSE ToFloat(g.data[input_name][1])

RangeAddToModelBuilderImpl(mb, node) ==
  LET g == mb.g
      bad(i) == \/ i > Len(node.in)
                \/ g.info[node.in[i]].dtype \notin RangeDataTypes
      firstBad == IF bad(1) THEN 1 ELSE IF bad(2) THEN 2 ELSE IF bad(3) THEN 3 ELSE 0
      notInit(i) == i <= Len(node.in) /\ ~Contains(g.inits, node.in[i])
      firstNotInit ==
        IF notInit(1) THEN 1 ELSE IF notInit(2) THEN 2 ELSE IF notInit(3) THEN 3 ELSE 0
  IN
  IF firstNotInit # 0 /\ (firstBad = 0 \/ firstNotInit <= firstBad)
  THEN Lowered(OutOfRange(node.in[firstNotInit]), <<>>, mb.operands, mb.fused)
  ELSE IF firstBad # 0
  THEN Lowered(MakeStatus("FAIL",
                          IF firstBad > Len(node.in) THEN "InvalidInputIndex"
                          ELSE "UnsupportedRangeDataType",
                          node.name, node.op),
               <<>>, mb.operands, mb.fused)
  ELSE LET start == CopyInputData(g, node.in[1])
           limit == CopyInputData(g, node.in[2])
           delta == CopyInputData(g, node.in[3])
           shape == <<Max(0, CeilDiv(ToFloat(limit - start), delta))>>
           fill == Operand("fillSequence", <<>>,
                           [type |-> "float32", shape |-> shape,
                            start |-> start, delta |-> delta])
           output == Operand("cast", <<fill>>, [type |-> g.info[node.in[1]].dtype])
       IN Lowered(StatusOK, <<>>, Put(mb.operands, node.out[1], output), mb.fused)

\* IOpBuilder::AddToModelBuilder of the node's translator.
AddToModelBuilder(mb, node) ==
  CASE GetOpBuilder(node) = "Activation" -> ActivationAddToModelBuilderImpl(mb, node)
    [] GetOpBuilder(node) = "BatchNormalization" -> BatchNormAddToModelBuilderImpl(mb, node)
    [] GetOpBuilder(node) = "Concat" -> ConcatAddToModelBuilderImpl(mb, node)
    [] GetOpBuilder(node) = "Conv" -> ConvAddToModelBuilderImpl(mb, node)
    [] GetOpBuilder(node) = "Gemm" -> GemmAddToModelBuilderImpl(mb, node)
    [] GetOpBuilder(node) = "GRU" -> GruAddToModelBuilderImpl(mb, node)
    [] GetOpBuilder(node) = "Range" -> RangeAddToModelBuilderImpl(mb, node)

\* DeclareConstantsToSkip of the node's translator: the names it adds to
\* skipped_initializers_ and to skipped_inputs_.
AddInitializersToSkip(node) ==
  CASE GetOpBuilder(node) = "GRU" ->
         IF Len(node.in) > 4
         THEN [initializers |-> {node.in[5]}, inputs |-> {node.in[5]}]
         ELSE [initializers |-> {}, inputs |-> {}]
    [] GetOpBuilder(node) = "Range" -> [initializers |-> Elems(node.in), inputs |-> {}]
    [] OTHER -> [initializers |-> {}, inputs |-> {}]

(***************************************************************************)
(* State.                                                                  *)
(***************************************************************************)
VARIABLES
  graph,                \* graph_viewer_: the host subgraph being compiled
  pc,                   \* the step of Compile about to run
  cursor,               \* position of the running loop in its list
  visited,              \* initializers RegisterInitializers has gone through
  wnn_context,          \* context_
  wnn_builder,          \* builder_
  operands,             \* operands_: tensor name -> Operand
  skipped_initializers, \* skipped_initializers_
  skipped_inputs,       \* skipped_inputs_
  activation_nodes,     \* activation_nodes_: NodeIndex -> activation operator
  fused_activations,    \* fused_activations_
  input_names,          \* input_names_
  output_names,         \* output_names_
  scalar_outputs,       \* scalar_outputs_
  input_output_info,    \* input_output_info_: name -> OnnxTensorInfo
  status,               \* what Compile returns (or the exception it lets out)
  model,                \* the caller's std::unique_ptr<Model>
  lowered,              \* history: node indices lowered, in order
  phaseLog,             \* history: the steps of Compile that ran, in order
  buildCalls,           \* history: calls of the backend's Build
  \* Inference on a compiled model
  wasmThreads,          \* ENABLE_WEBASSEMBLY_THREADS of the build
  mutexHolder,          \* OrtMutex -> the thread holding it, or NoThread
  tpc,                  \* thread -> its place in the caller and in Predict
  call,                 \* thread -> the arguments of its Predict call
  todo,                 \* thread -> names Predict's running loop has yet to visit
  wnn_inputs,           \* wnn_inputs_: name -> the buffer bound
  wnn_outputs,          \* wnn_outputs_: name -> the buffer bound
  val_vec,              \* thread -> Predict's local val_vec
  result,               \* thread -> status of its last Predict
  computes,             \* history: the backend compute calls, in order
  calls,                \* history: Predict calls made so far
  prepared,             \* SetWnnInputOutput has run on the model
  returned,             \* history: the Predict calls that are over, in order
  \* Partition of a host graph (GetSupportedNodes)
  supported_node_groups, \* the groups closed so far
  supported_node_group,  \* the group being filled
  node_pos,              \* position of the loop in the topological order
  partitions,            \* history: what the calls of GetSupportedNodes returned
  \* Availability of operators in the backend (helper.h)
  op_map,                \* op_map: operator type -> function of the backend
  op_dependency,         \* op_dependency: operator type -> operator types it needs
  wnn_functions,         \* the functions wnn_builder_ exposes
  checked                \* history: the last call of CheckSingleOp or CheckDependency

builderVars ==
  <<graph, pc, cursor, visited, wnn_context, wnn_builder, operands,
    skipped_initializers, skipped_inputs, activation_nodes, fused_activations,
    input_names, output_names, scalar_outputs, input_output_info, status,
    lowered, phaseLog, buildCalls>>
predictVars ==
  <<wasmThreads, mutexHolder, tpc, call, todo, wnn_inputs, wnn_outputs, val_vec,
    result, computes, calls, prepared, returned>>
helperVars == <<op_map, op_dependency, wnn_functions, checked>>
partitionVars ==
  <<supported_node_groups, supported_node_group, node_pos, partitions, helperVars>>
vars == <<builderVars, model, predictVars, partitionVars>>

NoModel == [assigned |-> FALSE]
EmptyMap == [n \in {} |-> 0]

(***************************************************************************)
(* ModelBuilder::Compile and ModelBuilder::Initialize: the order of steps. *)
(***************************************************************************)
Phases ==
  <<"CreateContext", "CreateGraphBuilder", "PreprocessInitializers",
    "PreprocessActivations", "RegisterInitializers", "RegisterModelInputs",
    "AddOperations", "RegisterModelOutputs", "Build">>

PhaseRank(p) == CHOOSE i \in DOMAIN Phases : Phases[i] = p

PhaseAfterLateActivations(p) ==
  CASE p = "CreateContext" -> "CreateGraphBuilder"
    [] p = "CreateGraphBuilder" -> "PreprocessInitializers"
    [] p = "PreprocessInitializers" -> "RegisterInitializers"
    [] p = "RegisterInitializers" -> "RegisterModelInputs"
    [] p = "RegisterModelInputs" -> "AddOperations"
    [] p = "AddOperations" -> "PreprocessActivations"
    [] p = "PreprocessActivations" -> "RegisterModelOutputs"
    [] p = "RegisterModelOutputs" -> "Build"
    [] p = "Build" -> "Done"

PhaseAfter(p) ==
  CASE p = "CreateContext" -> "CreateGraphBuilder"
    [] p = "CreateGraphBuilder" -> "PreprocessInitializers"
    [] p = "PreprocessInitializers" -> "PreprocessActivations"
    [] p = "PreprocessActivations" -> "RegisterInitializers"
    [] p = "RegisterInitializers" -> "RegisterModelInputs"
    [] p = "RegisterModelInputs" -> "AddOperations"
    [] p = "AddOperations" -> "RegisterModelOutputs"
    [] p = "RegisterModelOutputs" -> "Build"
    [] p = "Build" -> "Done"

Logged(p) == IF phaseLog # <<>> /\ Last(phaseLog) = p THEN phaseLog ELSE Append(phaseLog, p)

\* ORT_RETURN_IF_ERROR: the step's error leaves Compile at once.
ReturnErrorDropped(st) ==
  /\ pc' = PhaseAfter(pc)
  /\ status' = st

ReturnError(st) ==
  /\ pc' = "Failed"
  /\ status' = st

\* The step is over: go on with the one after it.
Proceed(p) ==
  /\ pc' = PhaseAfter(p)
  /\ cursor' = 1
  /\ status' = status

Threads == 1..NumThreads
NoThread == 0
NoCall == [id |-> 0, inputs |-> EmptyMap, outputs |-> EmptyMap]

\* A ModelBuilder after construction and the caller's empty model handle.
InitBuilder ==
  /\ pc = "CreateContext"
  /\ cursor = 1
  /\ visited = {}
  /\ wnn_context = "null"
  /\ wnn_builder = "null"
  /\ operands = EmptyMap
  /\ skipped_initializers = {}
  /\ skipped_inputs = {}
  /\ activation_nodes = EmptyMap
  /\ fused_activations = {}
  /\ input_names = <<>>
  /\ output_names = <<>>
  /\ scalar_outputs = {}
  /\ input_output_info = EmptyMap
  /\ status = StatusOK
  /\ model = NoModel
  /\ lowered = <<>>
  /\ phaseLog = <<>>
  /\ buildCalls = 0

\* No thread is in Predict; a Model's wnn_inputs_ and wnn_outputs_ start as
\* empty objects and its mutex_ free.
InitPredict ==
  /\ mutexHolder = [m \in {NoThread} \cup Threads |-> NoThread]
  /\ tpc = [t \in Threads |-> "Idle"]
  /\ call = [t \in Threads |-> NoCall]
  /\ todo = [t \in Threads |-> {}]
  /\ wnn_inputs = EmptyMap
  /\ wnn_outputs = EmptyMap
  /\ val_vec = [t \in Threads |-> EmptyMap]
  /\ result = [t \in Threads |-> "none"]
  /\ computes = <<>>
  /\ calls = 0
  /\ prepared = FALSE
  /\ returned = <<>>

OpDependency == [GRU |-> <<"Split">>]
OpMap ==
  [ Add |-> "add", Relu |-> "relu", LeakyRelu |-> "leakyRelu", Sigmoid |-> "sigmoid",
    Tanh |-> "tanh", BatchNormalization |-> "batchNormalization", Clip |-> "clamp",
    Conv |-> "conv2d", ConvTranspose |-> "convTranspose2d", Concat |-> "concat",
    Gemm |-> "gemm", MatMul |-> "matmul", GRU |-> "gru",
    GlobalAveragePool |-> "averagePool2d", GlobalMaxPool |-> "maxPool2d",
    AveragePool |-> "averagePool2d", MaxPool |-> "maxPool2d", Reshape |-> "reshape",
    Resize |-> "resample2d", Transpose |-> "transpose" ]
NoCheck == [fn |-> "none", op_type |-> "", result |-> FALSE]

\* The tables of helper.h as the program starts.
InitTables ==
  /\ op_map = OpMap
  /\ op_dependency = OpDependency
  /\ checked = NoCheck

\* No call of GetSupportedNodes has been made.
InitWalk ==
  /\ supported_node_groups = <<>>
  /\ supported_node_group = <<>>
  /\ node_pos = 1
  /\ partitions = <<>>

InitPartition ==
  /\ InitWalk
  /\ InitTables
  /\ wnn_functions = {}

Init ==
  /\ graph \in CompiledGraphs
  /\ InitBuilder
  /\ wasmThreads = FALSE
  /\ InitPredict
  /\ InitPartition

\* Initialize, to the creation of the context.
CreateContext ==
  /\ pc = "CreateContext"
  /\ phaseLog' = Logged("CreateContext")
  /\ \E created \in BOOLEAN :
       IF ~created
       THEN /\ ReturnError(MakeStatus("FAIL", "ContextCreation", "", ""))
            /\ UNCHANGED <<wnn_context, cursor>>
       ELSE /\ wnn_context' = "context"
            /\ Proceed("CreateContext")
  /\ UNCHANGED <<graph, visited, wnn_builder, operands, skipped_initializers,
                 skipped_inputs, activation_nodes, fused_activations, input_names,
                 output_names, scalar_outputs, input_output_info, lowered,
                 buildCalls, model, predictVars, partitionVars>>

\* Initialize, to the creation of the graph builder.
CreateGraphBuilder ==
  /\ pc = "CreateGraphBuilder"
  /\ phaseLog' = Logged("CreateGraphBuilder")
  /\ \E created \in BOOLEAN :
       IF ~created
       THEN /\ ReturnError(MakeStatus("FAIL", "BuilderCreation", "", ""))
            /\ UNCHANGED <<wnn_builder, cursor>>
       ELSE /\ wnn_builder' = "builder"
            /\ Proceed("CreateGraphBuilder")
  /\ UNCHANGED <<graph, visited, wnn_context, operands, skipped_initializers,
                 skipped_inputs, activation_nodes, fused_activations, input_names,
                 output_names, scalar_outputs, input_output_info, lowered,
                 buildCalls, model, predictVars, partitionVars>>

\* One turn of the loop of PreprocessInitializers, or its end.
PreprocessInitializers ==
  /\ pc = "PreprocessInitializers"
  /\ phaseLog' = Logged("PreprocessInitializers")
  /\ IF cursor <= NumNodes(graph)
     THEN LET skip == AddInitializersToSkip(NodeAt(graph, cursor)) IN
          /\ skipped_initializers' = skipped_initializers \cup skip.initializers
          /\ skipped_inputs' = skipped_inputs \cup skip.inputs
          /\ cursor' = cursor + 1
          /\ UNCHANGED <<pc, status>>
     ELSE /\ Proceed("PreprocessInitializers")
          /\ UNCHANGED <<skipped_initializers, skipped_inputs>>
  /\ UNCHANGED <<graph, visited, wnn_context, wnn_builder, operands,
                 activation_nodes, fused_activations, input_names, output_names,
                 scalar_outputs, input_output_info, lowered, buildCalls, model,
                 predictVars, partitionVars>>

\* The operator types PreprocessActivations builds an activation operator for.
ActivationKind(op) ==
  CASE op = "Relu" -> "relu"
    [] op = "LeakyRelu" -> "leakyRelu"
    [] op = "Sigmoid" -> "sigmoid"
    [] op = "Tanh" -> "tanh"
    [] op = "Clip" -> "clamp"
    [] OTHER -> "none"

\* One turn of the loop of PreprocessActivations, or its end.
PreprocessActivations ==
  /\ pc = "PreprocessActivations"
  /\ phaseLog' = Logged("PreprocessActivations")
  /\ IF cursor <= NumNodes(graph)
     THEN LET node == NodeAt(graph, cursor) IN
          /\ activation_nodes' =
               IF ActivationKind(node.op) # "none" /\ node.idx \notin DOMAIN activation_nodes
               THEN Put(activation_nodes, node.idx,
                        ActivationOperator(ActivationKind(node.op), node.idx))
               ELSE activation_nodes
          /\ cursor' = cursor + 1
          /\ UNCHANGED <<pc, status>>
     ELSE /\ Proceed("PreprocessActivations")
          /\ UNCHANGED activation_nodes
  /\ UNCHANGED <<graph, visited, wnn_context, wnn_builder, operands,
                 skipped_initializers, skipped_inputs, fused_activations,
                 input_names, output_names, scalar_outputs, input_output_info,
                 lowered, buildCalls, model, predictVars, partitionVars>>

\* The dimensions handed to the backend: {1} for a scalar.
ConstantDims(shape) == IF shape = <<>> THEN <<1>> ELSE shape

\* The data types RegisterInitializers builds a constant for.
IsFloatInitializerOrInt32(data_type) == data_type \in {"FLOAT", "INT32"}
IsFloatInitializer(data_type) == data_type = "FLOAT"

\* One turn of the loop of RegisterInitializers over the initializer table
\* (a hash map: any order), or its end.
RegisterInitializers ==
  /\ pc = "RegisterInitializers"
  /\ phaseLog' = Logged("RegisterInitializers")
  /\ IF visited # graph.inits
     THEN \E name \in graph.inits \ visited :
            /\ visited' = visited \cup {name}
            /\ IF Contains(skipped_initializers, name)
               THEN UNCHANGED <<operands, pc, status>>
               ELSE IF IsFloatInitializer(graph.info[name].dtype)
               THEN /\ operands' =
                         Put(operands, name,
                             Operand("constant", <<>>,
                                     [name |-> name,
                                      dims |-> ConstantDims(graph.info[name].shape)]))
                    /\ UNCHANGED <<pc, status>>
               ELSE /\ ReturnError(MakeStatus("INVALID_ARGUMENT", "UnsupportedDataType",
                                              name, graph.info[name].dtype))
                    /\ UNCHANGED operands
            /\ UNCHANGED cursor
     ELSE /\ Proceed("RegisterInitializers")
          /\ UNCHANGED <<visited, operands>>
  /\ UNCHANGED <<graph, wnn_context, wnn_builder, skipped_initializers,
                 skipped_inputs, activation_nodes, fused_activations, input_names,
                 output_names, scalar_outputs, input_output_info, lowered,
                 buildCalls, model, predictVars, partitionVars>>

\* The dimensions RegisterModelInputOutput gives a graph input or output:
\* {1} for a scalar, 1 for a dimension without a value.
InputOutputDimsAsGiven(shape) ==
  [d \in DOMAIN shape |-> IF shape[d] = NoDim THEN 1 ELSE shape[d]]

InputOutputDims(shape) ==
  IF shape = <<>> THEN <<1>>
  ELSE [d \in DOMAIN shape |-> IF shape[d] = NoDim THEN 1 ELSE shape[d]]

\* input_names_.push_back, output_names_.push_back.
PushFront(names, name) == <<name>> \o names
PushBack(names, name) == Append(names, name)

\* ModelBuilder::RegisterModelInputOutput on the builder's state: the status
\* and the members as it leaves them.
RegisterModelInputOutput(name, is_input) ==
  LET info == graph.info[name]
      same == [status |-> StatusOK, operands |-> operands, input_names |-> input_names,
               output_names |-> output_names, scalar_outputs |-> scalar_outputs,
               input_output_info |-> input_output_info]
      scalars == IF info.shape = <<>> /\ ~is_input
                 THEN scalar_outputs \cup {name} ELSE scalar_outputs
      subject == IF is_input THEN "input" ELSE "output"
  IN
  IF is_input /\ Contains(graph.inits, name) THEN same
  ELSE IF is_input /\ Contains(skipped_inputs, name) THEN same
  ELSE IF info.shape = NoShape
  THEN [same EXCEPT !.status = MakeStatus("FAIL", "NoShape", name, subject)]
  ELSE IF info.dtype = NoType
  THEN [same EXCEPT !.status = MakeStatus("INVALID_ARGUMENT", "NoElemType", name, subject),
                    !.scalar_outputs = scalars]
  ELSE IF info.dtype # "FLOAT"
  THEN [same EXCEPT !.status = MakeStatus("INVALID_ARGUMENT", "InvalidType", name, subject),
                    !.scalar_outputs = scalars]
  ELSE [ status |-> StatusOK,
         operands |->
           IF is_input
           THEN Put(operands, name,
                    Operand("input", <<>>,
                            [name |-> name, dims |-> InputOutputDims(info.shape)]))
           ELSE operands,
         input_names |-> IF is_input THEN PushBack(input_names, name) ELSE input_names,
         output_names |-> IF is_input THEN output_names ELSE PushBack(output_names, name),
         scalar_outputs |-> scalars,
         input_output_info |->
           IF name \in DOMAIN input_output_info THEN input_output_info
           ELSE Put(input_output_info, name,
                    [data_type |-> info.dtype, shape |-> InputOutputDims(info.shape)]) ]

\* One turn of the loop of RegisterModelInputs or RegisterModelOutputs over
\* the graph's list, or its end.
RegisterModelInputsOutputs(phase, list, is_input) ==
  /\ pc = phase
  /\ phaseLog' = Logged(phase)
  /\ IF cursor <= Len(list)
     THEN LET r == RegisterModelInputOutput(list[cursor], is_input) IN
          /\ operands' = r.operands
          /\ input_names' = r.input_names
          /\ output_names' = r.output_names
          /\ scalar_outputs' = r.scalar_outputs
          /\ input_output_info' = r.input_output_info
          /\ IF IsOK(r.status)
             THEN /\ cursor' = cursor + 1
                  /\ UNCHANGED <<pc, status>>
             ELSE /\ ReturnError(r.status)
                  /\ UNCHANGED cursor
     ELSE /\ Proceed(phase)
          /\ UNCHANGED <<operands, input_names, output_names, scalar_outputs,
                         input_output_info>>
  /\ UNCHANGED <<graph, visited, wnn_context, wnn_builder, skipped_initializers,
                 skipped_inputs, activation_nodes, fused_activations, lowered,
                 buildCalls, model, predictVars, partitionVars>>

RegisterModelInputs ==
  RegisterModelInputsOutputs("RegisterModelInputs", graph.inputs, TRUE)

RegisterModelOutputs ==
  RegisterModelInputsOutputs("RegisterModelOutputs", graph.outputs, FALSE)

\* The builder as the translators see it.
Builder ==
  [g |-> graph, operands |-> operands, activation_nodes |-> activation_nodes,
   fused |-> fused_activations]

\* The position AddOperations' loop takes after position i.
NextPositionSkipping(i) == i + 2
NextPosition(i) == i + 1

\* The node AddOperations dispatches at position i of its loop.
NodeToLowerByIndex(g, i) == g.nodes[SetToSortedSeq(DOMAIN g.nodes)[i]]
NodeToLower(g, i) == g.nodes[g.topo[i]]

\* The error for a node without a translator: it names the node and its type.
UnsupportedOperatorUnnamed(node) ==
  MakeStatus("INVALID_ARGUMENT", "UnsupportedOperator", "", "")
UnsupportedOperator(node) ==
  MakeStatus("INVALID_ARGUMENT", "UnsupportedOperator", node.name, node.op)

\* One turn of the loop of AddOperations, or its end.
AddOperations ==
  /\ pc = "AddOperations"
  /\ phaseLog' = Logged("AddOperations")
  /\ IF cursor <= NumNodes(graph)
     THEN LET node == NodeToLower(graph, cursor) IN
          IF GetOpBuilder(node) # "none"
          THEN \E read \in OutputDefsReads(node) :
               LET r == AddToModelBuilder(Builder @@ [read |-> read], node) IN
               /\ operands' = r.operands
               /\ fused_activations' = r.fused
               /\ IF IsOK(r.status)
                  THEN /\ lowered' = Append(lowered, node.idx)
                       /\ cursor' = NextPosition(cursor)
                       /\ UNCHANGED <<pc, status>>
                  ELSE /\ ReturnError(r.status)
                       /\ UNCHANGED <<lowered, cursor>>
          ELSE /\ ReturnError(UnsupportedOperator(node))
               /\ UNCHANGED <<operands, fused_activations, lowered, cursor>>
     ELSE /\ Proceed("AddOperations")
          /\ UNCHANGED <<operands, fused_activations, lowered>>
  /\ UNCHANGED <<graph, visited, wnn_context, wnn_builder, skipped_initializers,
                 skipped_inputs, activation_nodes, input_names, output_names,
                 scalar_outputs, input_output_info, buildCalls, model, predictVars, partitionVars>>

\* operands_[name] for each output name: a name without an operand gets a
\* default-constructed one.
RECURSIVE WithOutputOperands(_, _)
WithOutputOperands(ops, names) ==
  IF names = <<>> THEN ops
  ELSE WithOutputOperands(
         IF Head(names) \in DOMAIN ops THEN ops ELSE Put(ops, Head(names), NullOperand),
         Tail(names))

\* Compile after Initialize: the backend's Build, and the Model on success.
Build ==
  /\ pc = "Build"
  /\ phaseLog' = Logged("Build")
  /\ operands' = WithOutputOperands(operands, output_names)
  /\ buildCalls' = buildCalls + 1
  /\ \E built \in BOOLEAN :
       IF ~built
       THEN /\ ReturnError(MakeStatus("FAIL", "GraphBuild", "", ""))
            /\ UNCHANGED <<model, cursor>>
       ELSE /\ model' = [assigned |-> TRUE, inputs |-> input_names,
                         outputs |-> output_names, scalar_outputs |-> scalar_outputs,
                         input_output_info |-> input_output_info]
            /\ Proceed("Build")
  /\ UNCHANGED <<graph, visited, wnn_context, wnn_builder, skipped_initializers,
                 skipped_inputs, activation_nodes, fused_activations, input_names,
                 output_names, scalar_outputs, input_output_info, lowered,
                 predictVars, partitionVars>>

Next ==
  \/ CreateContext
  \/ CreateGraphBuilder
  \/ PreprocessInitializers
  \/ PreprocessActivations
  \/ RegisterInitializers
  \/ RegisterModelInputs
  \/ AddOperations
  \/ RegisterModelOutputs
  \/ Build

Spec == Init /\ [][Next]_vars

(***************************************************************************)
(* Properties of Compile.                                                  *)
(***************************************************************************)
Terminated == pc \in {"Done", "Failed"}
AboutToLower == pc = "AddOperations" /\ cursor <= NumNodes(graph)

\* C1: when a node of a subgraph whose nodes all pass SupportCheck is about
\* to be lowered, every name its translator resolves through GetOperand has
\* an operand, names in the skip sets included.
C1_OperandsRegisteredBeforeLowering ==
  (AboutToLower /\ AllSupported(graph)) =>
    Elems(AddToModelBuilder(Builder, NodeAt(graph, cursor)).resolved) \subseteq DOMAIN operands

\* C2: the nodes lowered so far are, in order, the first nodes of the host's
\* topological order: none twice, none before one that precedes it.
C2_LoweringFollowsTopologicalOrder ==
  /\ Len(lowered) <= NumNodes(graph)
  /\ lowered = SubSeq(graph.topo, 1, Len(lowered))
  /\ AboutToLower => Len(lowered) = cursor - 1

C2_Witness ==
  /\ pc = "Done"
  /\ Len(lowered) = 3
  /\ lowered[1] > lowered[2]

\* C3: the steps of a compilation run in the one order skip declaration,
\* activation pre-pass, initializer registration, input registration, node
\* lowering, output registration, Build, each over before the next starts;
\* both pre-passes have gone over every node before the first is lowered.
C3_PhasesInOrder ==
  /\ Len(phaseLog) <= Len(Phases)
  /\ phaseLog = SubSeq(Phases, 1, Len(phaseLog))
  /\ (pc = "AddOperations" \/ lowered # <<>>) =>
       \A i \in DOMAIN graph.nodes :
         /\ ActivationKind(graph.nodes[i].op) # "none" => i \in DOMAIN activation_nodes
         /\ AddInitializersToSkip(graph.nodes[i]).initializers \subseteq skipped_initializers
         /\ AddInitializersToSkip(graph.nodes[i]).inputs \subseteq skipped_inputs

C3_Witness ==
  /\ pc = "Done"
  /\ phaseLog = Phases
  /\ fused_activations # {}
  /\ skipped_initializers # {}

\* The step of Compile an error status comes from.
FailingPhase(st) ==
  CASE st.kind = "ContextCreation" -> "CreateContext"
    [] st.kind = "BuilderCreation" -> "CreateGraphBuilder"
    [] st.kind = "UnsupportedDataType" -> "RegisterInitializers"
    [] st.kind \in {"NoShape", "NoElemType", "InvalidType"} ->
         IF st.optype = "input" THEN "RegisterModelInputs" ELSE "RegisterModelOutputs"
    [] st.kind = "GraphBuild" -> "Build"
    [] OTHER -> "AddOperations"

\* C4: once a step of Compile has failed, Compile is over with that step's
\* error, the failing step is the last that ran, the backend's Build was not
\* called (unless it is the step that failed) and the caller's model handle
\* is unassigned; a model is assigned only by a Compile that returns OK.
C4_FailureAbortsCompile ==
  /\ ~IsOK(status) =>
       /\ pc = "Failed"
       /\ ~model.assigned
       /\ Last(phaseLog) = FailingPhase(status)
       /\ buildCalls = (IF status.kind = "GraphBuild" THEN 1 ELSE 0)
  /\ pc = "Failed" => ~IsOK(status)
  /\ model.assigned => pc = "Done" /\ IsOK(status)

C4_Witness ==
  /\ pc = "Failed"
  /\ Last(phaseLog) = "AddOperations"
  /\ lowered # <<>>
  /\ status.code = "INVALID_ARGUMENT"

NonFloat(names) == {n \in names : graph.info[n].dtype # "FLOAT"}

C6_UnsupportedOperatorStopsLowering ==
  /\ status.kind = "UnsupportedOperator" =>
       /\ pc = "Failed"
       /\ cursor <= NumNodes(graph)
       /\ NodeAt(graph, cursor).op \notin OpBuilders
       /\ status.subject = NodeAt(graph, cursor).name
       /\ status.optype = NodeAt(graph, cursor).op
       /\ lowered = SubSeq(graph.topo, 1, cursor - 1)
  /\ \A k \in 1..Len(lowered) :
       \A j \in 1..k : graph.nodes[graph.topo[j]].op \in OpBuilders
  /\ pc \in {"RegisterModelOutputs", "Build", "Done"} =>
       \A i \in DOMAIN graph.nodes : graph.nodes[i].op \in OpBuilders

C6_Witness ==
  /\ status.kind = "UnsupportedOperator"
  /\ lowered # <<>>
  /\ cursor < NumNodes(graph)

Consumers(g, t) == {i \in DOMAIN g.nodes : t \in Elems(g.nodes[i].in)}

\* C7: FindActivation fuses an activation into a producer (the output's name
\* is in the fused-name set) only if exactly one node consumes the output,
\* that node is in the activation record and the output is no graph output.
C7_FusesOnlySoleActivationConsumer ==
  \A t \in fused_activations :
    /\ Cardinality(Consumers(graph, t)) = 1
    /\ Consumers(graph, t) \subseteq DOMAIN activation_nodes
    /\ t \notin Elems(graph.outputs)

\* C8: a node that passes its translator's SupportCheck lowers with success.
C8_AcceptedNodesLower ==
  (AboutToLower /\ IsOpSupportedImpl(graph, NodeAt(graph, cursor))) =>
    IsOK(AddToModelBuilder(Builder, NodeAt(graph, cursor)).status)

(***************************************************************************)
(* Inference: Model::Predict, called by threads that hold the model's      *)
(* mutex.                                                                  *)
(***************************************************************************)
MutexOfModel == NoThread

\* Model::GetMutex: the one mutex_ of the model, whoever asks.
GetMutexPerCaller(t) == t
GetMutex(t) == MutexOfModel

\* The test Predict makes of a tensor's data_type.
IsFloatUnlessFailedBefore(data_type) ==
  data_type = "FLOAT" /\ \A j \in DOMAIN returned : returned[j].result = "OK"
IsFloatOrInt32(data_type) == data_type \in {"FLOAT", "INT32"}
IsFloat(data_type) == data_type = "FLOAT"

PredictTypes == {"FLOAT", "INT32"}
View(buffer, data) == [buffer |-> buffer, data |-> data]
TypeMismatch == "INVALID_ARGUMENT"

\* SetWnnInputOutput: a Float32Array of the backend for every input and
\* output of the model.
SetWnnInputOutput ==
  /\ model.assigned
  /\ ~prepared
  /\ prepared' = TRUE
  /\ wnn_inputs' = [n \in Elems(model.inputs) |-> View(0, 0)]
  /\ wnn_outputs' = [n \in Elems(model.outputs) |-> View(0, 0)]
  /\ UNCHANGED <<builderVars, partitionVars, model, wasmThreads, mutexHolder, tpc, call, todo,
                 val_vec, result, computes, calls, returned>>

\* The buffers bound to the model's inputs and outputs.
Bound == [inputs |-> wnn_inputs, outputs |-> wnn_outputs]

\* The caller takes the model's mutex and enters Predict with one tensor,
\* of some data type, for every input and every output of the model.
Lock(t) ==
  /\ model.assigned
  /\ prepared
  /\ tpc[t] = "Idle"
  /\ calls < MaxCalls
  /\ mutexHolder[GetMutex(t)] = NoThread
  /\ mutexHolder' = [mutexHolder EXCEPT ![GetMutex(t)] = t]
  /\ calls' = calls + 1
  /\ \E ins \in [Elems(model.inputs) -> PredictTypes],
        outs \in [Elems(model.outputs) -> PredictTypes] :
       /\ call' = [call EXCEPT ![t] = [id |-> calls + 1, inputs |-> ins, outputs |-> outs,
                                        bound |-> Bound]]
       /\ todo' = [todo EXCEPT ![t] = DOMAIN ins]
  /\ tpc' = [tpc EXCEPT ![t] = "BindInputs"]
  /\ result' = [result EXCEPT ![t] = "none"]
  /\ val_vec' = [val_vec EXCEPT ![t] = EmptyMap]
  /\ UNCHANGED <<builderVars, partitionVars, model, wasmThreads, wnn_inputs, wnn_outputs,
                 computes, prepared, returned>>

\* One turn of Predict's loop over its inputs, or the end of the loop.
BindInput(t) ==
  /\ tpc[t] = "BindInputs"
  /\ IF todo[t] = {}
     THEN /\ tpc' = [tpc EXCEPT ![t] = "BindOutputs"]
          /\ todo' = [todo EXCEPT ![t] = DOMAIN call[t].outputs]
          /\ UNCHANGED <<wnn_inputs, result>>
     ELSE \E name \in todo[t] :
            IF ~IsFloat(call[t].inputs[name])
            THEN /\ result' = [result EXCEPT ![t] = TypeMismatch]
                 /\ tpc' = [tpc EXCEPT ![t] = "Return"]
                 /\ UNCHANGED <<wnn_inputs, todo>>
            ELSE /\ wnn_inputs' =
                      Put(wnn_inputs, name,
                          IF wasmThreads THEN View(wnn_inputs[name].buffer, call[t].id)
                          ELSE View(call[t].id, call[t].id))
                 /\ todo' = [todo EXCEPT ![t] = @ \ {name}]
                 /\ UNCHANGED <<tpc, result>>
  /\ UNCHANGED <<builderVars, partitionVars, model, wasmThreads, mutexHolder, call, wnn_outputs,
                 val_vec, computes, calls, prepared, returned>>

\* One turn of Predict's loop over its outputs, or the end of the loop.
BindOutput(t) ==
  /\ tpc[t] = "BindOutputs"
  /\ IF todo[t] = {}
     THEN /\ tpc' = [tpc EXCEPT ![t] = "Compute"]
          /\ UNCHANGED <<wnn_outputs, val_vec, result, todo>>
     ELSE \E name \in todo[t] :
            IF ~IsFloat(call[t].outputs[name])
            THEN /\ result' = [result EXCEPT ![t] = TypeMismatch]
                 /\ tpc' = [tpc EXCEPT ![t] = "Return"]
                 /\ UNCHANGED <<wnn_outputs, val_vec, todo>>
            ELSE /\ IF wasmThreads
                    THEN /\ val_vec' = [val_vec EXCEPT ![t] = Put(@, name, View(call[t].id, 0))]
                         /\ UNCHANGED wnn_outputs
                    ELSE /\ wnn_outputs' = Put(wnn_outputs, name, View(call[t].id, 0))
                         /\ UNCHANGED val_vec
                 /\ todo' = [todo EXCEPT ![t] = @ \ {name}]
                 /\ UNCHANGED <<tpc, result>>
  /\ UNCHANGED <<builderVars, partitionVars, model, wasmThreads, mutexHolder, call, wnn_inputs,
                 computes, calls, prepared, returned>>

\* What the backend's computeSync can do: compute, report a failure in the
\* value it returns, or throw.
ComputeOutcomes == {"ok", "failed", "thrown"}

\* What Predict makes of the outcome of computeSync: the value returned is
\* dropped, an exception leaves Predict.
AfterCompute(outcome) == IF outcome = "thrown" THEN "leave" ELSE "continue"

\* computeSync on wnn_inputs_ and wnn_outputs_: the backend reads the one and,
\* when it computes, fills the other.
Compute(t) ==
  /\ tpc[t] = "Compute"
  /\ \E outcome \in ComputeOutcomes :
       /\ computes' = Append(computes, [id |-> call[t].id, thread |-> t,
                                        inputs |-> wnn_inputs, outputs |-> wnn_outputs,
                                        outcome |-> outcome])
       /\ wnn_outputs' = IF outcome = "ok"
                         THEN [n \in DOMAIN wnn_outputs |->
                                 View(wnn_outputs[n].buffer, call[t].id)]
                         ELSE wnn_outputs
       /\ IF AfterCompute(outcome) = "leave"
          THEN /\ tpc' = [tpc EXCEPT ![t] = "Return"]
               /\ result' = [result EXCEPT ![t] = "EXCEPTION"]
          ELSE IF wasmThreads
          THEN /\ tpc' = [tpc EXCEPT ![t] = "CopyBack"]
               /\ UNCHANGED result
          ELSE /\ tpc' = [tpc EXCEPT ![t] = "Return"]
               /\ result' = [result EXCEPT ![t] = "OK"]
  /\ UNCHANGED <<builderVars, partitionVars, model, wasmThreads, mutexHolder, call, todo,
                 wnn_inputs, val_vec, calls, prepared, returned>>

\* With threads: Predict's last loop sets the caller's output buffers from
\* wnn_outputs_.
CopyBack(t) ==
  /\ tpc[t] = "CopyBack"
  /\ val_vec' = [val_vec EXCEPT ![t] =
                   [n \in DOMAIN @ |-> View(@[n].buffer, wnn_outputs[n].data)]]
  /\ tpc' = [tpc EXCEPT ![t] = "Return"]
  /\ result' = [result EXCEPT ![t] = "OK"]
  /\ UNCHANGED <<builderVars, partitionVars, model, wasmThreads, mutexHolder, call, todo,
                 wnn_inputs, wnn_outputs, computes, calls, prepared, returned>>

\* The tensors of a call are all float32.
AllFloat(c) ==
  /\ \A n \in DOMAIN c.inputs : c.inputs[n] = "FLOAT"
  /\ \A n \in DOMAIN c.outputs : c.outputs[n] = "FLOAT"

\* Predict is over: the caller has its status and lets go of the mutex.
Unlock(t) ==
  /\ tpc[t] = "Return"
  /\ mutexHolder' = [m \in DOMAIN mutexHolder |-> IF mutexHolder[m] = t THEN NoThread
                                                  ELSE mutexHolder[m]]
  /\ tpc' = [tpc EXCEPT ![t] = "Idle"]
  /\ returned' = Append(returned, [id |-> call[t].id, result |-> result[t],
                                     float |-> AllFloat(call[t])])
  /\ UNCHANGED <<builderVars, partitionVars, model, wasmThreads, call, todo, wnn_inputs,
                 wnn_outputs, val_vec, result, computes, calls, prepared>>

\* The subgraphs inference is explored on: those of one node.
PredictGraphs == {g \in CompiledGraphs : NumNodes(g) = 1}

PredictInit ==
  /\ graph \in PredictGraphs
  /\ InitBuilder
  /\ wasmThreads \in BOOLEAN
  /\ InitPredict
  /\ InitPartition

PredictNext ==
  \/ Next
  \/ SetWnnInputOutput
  \/ \E t \in Threads : Lock(t)
  \/ \E t \in Threads : BindInput(t)
  \/ \E t \in Threads : BindOutput(t)
  \/ \E t \in Threads : Compute(t)
  \/ \E t \in Threads : CopyBack(t)
  \/ \E t \in Threads : Unlock(t)

SpecPredict == PredictInit /\ [][PredictNext]_vars

(***************************************************************************)
(* Properties of Predict.                                                  *)
(***************************************************************************)
InPredict == {"BindInputs", "BindOutputs", "Compute", "CopyBack"}
ComputesOf(id) == {k \in 1..Len(computes) : computes[k].id = id}

\* C9: with every caller holding the model's mutex around Predict, at most
\* one thread is inside Predict at a time, and every backend compute call
\* reads input bindings, and (without threads) writes output bindings, set
\* by the Predict call that issues it.
C9_PredictCallsSerialize ==
  /\ Cardinality({t \in Threads : tpc[t] \in InPredict}) <= 1
  /\ \A k \in 1..Len(computes) :
       /\ \A n \in DOMAIN computes[k].inputs : computes[k].inputs[n].data = computes[k].id
       /\ ~wasmThreads =>
            \A n \in DOMAIN computes[k].outputs : computes[k].outputs[n].buffer = computes[k].id

C9_Witness ==
  /\ Len(computes) = 2
  /\ computes[1].thread # computes[2].thread
  /\ DOMAIN computes[2].inputs # {}
  /\ \E t \in Threads : tpc[t] = "Idle" /\ call[t].id = 1

\* C10: a Predict call given an input or output of a data type other than
\* float32 returns the type-mismatch error and makes no backend compute
\* call; one given float32 only returns OK after exactly one compute call.
C10_TypeCheckedBeforeCompute ==
  \A t \in Threads :
    /\ Cardinality(ComputesOf(call[t].id)) <= 1
    /\ (call[t].id # 0 /\ ~AllFloat(call[t])) =>
         /\ ComputesOf(call[t].id) = {}
         /\ result[t] \in {"none", TypeMismatch}
         /\ tpc[t] \in {"Return", "Idle"} => result[t] = TypeMismatch
    /\ (call[t].id # 0 /\ AllFloat(call[t])) =>
         /\ result[t] \in {"none", "OK", "EXCEPTION"}
         /\ result[t] = "EXCEPTION" =>
              \E k \in ComputesOf(call[t].id) : computes[k].outcome = "thrown"
         /\ tpc[t] \in {"Return", "Idle"} =>
              result[t] # "none" /\ Cardinality(ComputesOf(call[t].id)) = 1
         /\ tpc[t] \in {"BindInputs", "BindOutputs", "Compute"} =>
              ComputesOf(call[t].id) = {}

C10_Witness ==
  \E t, u \in Threads :
    /\ tpc[t] = "Idle" /\ result[t] = TypeMismatch
    /\ \E n \in DOMAIN call[t].outputs : call[t].outputs[n] # "FLOAT"
    /\ \A n \in DOMAIN call[t].inputs : call[t].inputs[n] = "FLOAT"
    /\ DOMAIN call[t].inputs # {}
    /\ tpc[u] = "Idle" /\ result[u] = "OK" /\ Len(computes) = 1
    /\ computes[1].outcome = "ok"

\* C11: a Predict call whose backend computation failed, by the value
\* computeSync returns or by an exception, does not end with OK.
C11_ComputeFailureSurfaced ==
  \A t \in Threads :
    (\E k \in ComputesOf(call[t].id) : computes[k].outcome # "ok") => result[t] # "OK"

\* The Model as Compile left it.
ModelAfterCompile ==
  [assigned |-> TRUE, inputs |-> input_names, outputs |-> output_names,
   scalar_outputs |-> scalar_outputs, input_output_info |-> input_output_info]
FailedCall(j) ==
  \/ returned[j].result # "OK"
  \/ \E k \in ComputesOf(returned[j].id) : computes[k].outcome # "ok"

\* C12: whatever Predict calls came before, failed ones included, the model
\* keeps the name lists, scalar-output set and metadata table Compile gave
\* it, and a Predict call with float32 tensors only that comes after a
\* failed call makes one compute call on its own bindings and, the backend
\* not failing again, returns OK.
C12_ModelValidAfterFailedPredict ==
  /\ model.assigned => model = ModelAfterCompile
  /\ \A k \in DOMAIN returned :
       (returned[k].float /\ \E j \in 1..(k - 1) : FailedCall(j)) =>
         /\ Cardinality(ComputesOf(returned[k].id)) = 1
         /\ \A c \in ComputesOf(returned[k].id) :
              /\ \A n \in DOMAIN computes[c].inputs :
                   computes[c].inputs[n].data = returned[k].id
              /\ returned[k].result = (IF computes[c].outcome = "thrown"
                                       THEN "EXCEPTION" ELSE "OK")

C12_Witness ==
  /\ Len(returned) = 2
  /\ returned[1].result = TypeMismatch
  /\ \E k \in 1..Len(computes) : computes[k].id = returned[2].id /\ computes[k].outcome = "ok"
  /\ returned[2].float /\ returned[2].result = "OK"
  /\ model.inputs # <<>>

(***************************************************************************)
(* Properties of the compiled Model.                                       *)
(***************************************************************************)
\* Model::IsScalarOutput.
IsScalarOutput(m, output_name) == Contains(m.scalar_outputs, output_name)

\* C13: in the Model of a successful Compile, a graph output is a scalar
\* output exactly when its shape in the host graph is empty, and the
\* metadata table then gives it the shape [1].
C13_ScalarOutputsRecorded ==
  model.assigned =>
    \A i \in DOMAIN graph.outputs :
      LET name == graph.outputs[i] IN
      /\ IsScalarOutput(model, name) <=> graph.info[name].shape = <<>>
      /\ IsScalarOutput(model, name) =>
           /\ name \in DOMAIN model.input_output_info
           /\ model.input_output_info[name].shape = <<1>>

C13_Witness ==
  /\ model.assigned
  /\ \E i, j \in DOMAIN graph.outputs :
       /\ IsScalarOutput(model, graph.outputs[i])
       /\ ~IsScalarOutput(model, graph.outputs[j])

\* C14: in the Model of a successful Compile, the input names are the host
\* graph's inputs in the host's order, less the initializers and the
\* skipped inputs; the output names are the host graph's outputs in the
\* host's order; each of them has an entry in the metadata table.
C14_NameListsFollowHostOrder ==
  model.assigned =>
    /\ model.inputs =
         SelectSeqIn(graph.inputs, Elems(graph.inputs) \ (graph.inits \cup skipped_inputs))
    /\ model.outputs = graph.outputs
    /\ Elems(model.inputs) \cup Elems(model.outputs) \subseteq DOMAIN model.input_output_info

C14_Witness ==
  /\ model.assigned
  /\ Len(model.inputs) = 2
  /\ Len(model.outputs) >= 2
  /\ Elems(graph.inputs) \cap graph.inits # {}
  /\ Elems(graph.inputs) \cap skipped_inputs # {}

(***************************************************************************)
(* Support Query Layer: GetSupportedNodes, the partition of a host graph   *)
(* into groups of consecutive supported nodes.                             *)
(***************************************************************************)
\* A node is legal for the backend: its type has a translator and the
\* translator's SupportCheck accepts it.
IsNodeSupported(g, node) == GetOpBuilder(node) # "none" /\ IsOpSupportedImpl(g, node)

\* supported_node_group.push_back(node_idx)
PushNodeFront(group, node_idx) == <<node_idx>> \o group
PushNode(group, node_idx) == Append(group, node_idx)

\* supported_node_group after it has been pushed to the groups: cleared.
GroupKept(group) == group
GroupAfterPush(group) == <<>>

\* The groups with the group being filled closed, when it has a node.
CloseGroup(groups, group) == IF group = <<>> THEN groups ELSE Append(groups, group)

\* One turn of the loop of GetSupportedNodes over the nodes in topological
\* order, or its end: the last group is closed and the groups are returned.
GetSupportedNodes ==
  /\ Len(partitions) < MaxPartitions
  /\ IF node_pos <= NumNodes(graph)
     THEN /\ node_pos' = node_pos + 1
          /\ IF IsNodeSupported(graph, NodeAt(graph, node_pos))
             THEN /\ supported_node_group' = PushNode(supported_node_group, graph.topo[node_pos])
                  /\ UNCHANGED supported_node_groups
             ELSE /\ supported_node_groups' = CloseGroup(supported_node_groups, supported_node_group)
                  /\ supported_node_group' =
                       IF supported_node_group = <<>> THEN <<>>
                       ELSE GroupAfterPush(supported_node_group)
          /\ UNCHANGED partitions
     ELSE /\ partitions' = Append(partitions, CloseGroup(supported_node_groups, supported_node_group))
          /\ supported_node_groups' = <<>>
          /\ supported_node_group' = <<>>
          /\ node_pos' = 1
  /\ UNCHANGED <<builderVars, model, predictVars, helperVars>>

\* Gemm nodes A*B+C of the host: A of shape [2,3], B of shape [3,4] or [4,3],
\* with and without C, with and without transB.
GemmNodes ==
  { Node(11, "gemm", "Gemm", <<"GA", b>> \o c, <<"gm">>, attrs) :
      b \in {"B34", "B43"},
      c \in {<<>>, <<"C4">>, <<"C3">>, <<"C0">>, <<"C24">>, <<"C13">>, <<"CN">>},
      attrs \in {NoAttrs, [transB |-> 0], [transB |-> 1], [transB |-> 2]} }

\* The Gemm nodes placed among other nodes: one accepted, one rejected.
HostGemmNodes ==
  { n \in GemmNodes : n.attrs = NoAttrs /\ n.in \in {<<"GA", "B34", "C4">>, <<"GA", "B34", "C3">>} }

\* A Gemm node exchanges no tensor with the other nodes: any position in the
\* order is topological.
HostGroups == SubSeq(Groups, 1, 2) \o <<HostGemmNodes>> \o SubSeq(Groups, 3, Len(Groups))

RECURSIVE HostNodeSeqs(_, _)
HostNodeSeqs(k, n) ==
  IF k > Len(HostGroups) \/ n = 0 THEN {<<>>}
  ELSE HostNodeSeqs(k + 1, n)
       \cup {<<v>> \o s : v \in HostGroups[k], s \in HostNodeSeqs(k + 1, n - 1)}

\* The host graphs partitioned: any well-formed sequence of nodes, and each
\* Gemm node alone.
HostGraphs ==
  { MakeGraph(ns, FALSE) : ns \in {s \in HostNodeSeqs(1, MaxNodes) : WellFormed(s)} }
  \cup { MakeGraph(<<n>>, FALSE) : n \in GemmNodes }

PartitionInit ==
  /\ graph \in HostGraphs
  /\ InitBuilder
  /\ wasmThreads = FALSE
  /\ InitPredict
  /\ InitPartition

PartitionNext == GetSupportedNodes

SpecPartition == PartitionInit /\ [][PartitionNext]_vars

(***************************************************************************)
(* Properties of the partition.                                            *)
(***************************************************************************)
RECURSIVE Flatten(_)
Flatten(groups) == IF groups = <<>> THEN <<>> ELSE Head(groups) \o Flatten(Tail(groups))

\* The groups of a call in progress and of the calls that returned.
GroupLists ==
  {CloseGroup(supported_node_groups, supported_node_group)} \cup Elems(partitions)
TopoPosition(idx) == CHOOSE p \in DOMAIN graph.topo : graph.topo[p] = idx

\* C15: no node is in two groups (nor twice in one), and every node in a
\* group passes its translator's support check.
C15_GroupsDisjointAndSupported ==
  \A groups \in GroupLists :
    LET flat == Flatten(groups) IN
    /\ \A i, j \in DOMAIN flat : i # j => flat[i] # flat[j]
    /\ \A i \in DOMAIN flat :
         /\ flat[i] \in DOMAIN graph.nodes
         /\ graph.nodes[flat[i]].op \in OpBuilders
         /\ IsOpSupportedImpl(graph, graph.nodes[flat[i]])

C15_Witness ==
  /\ Len(partitions) >= 1
  /\ Len(partitions[1]) = 2
  /\ \E p \in 1..NumNodes(graph) :
       /\ NodeAt(graph, p).op \in OpBuilders
       /\ ~IsOpSupportedImpl(graph, NodeAt(graph, p))

GemmBiasLegal(g, node) ==
  LET c_shape == Dims(g, node.in[3])
      b_shape == Dims(g, node.in[2])
      transB == Get(node, "transB", 0)
  IN /\ c_shape # NoShape
     /\ \/ c_shape = <<>>
        \/ /\ c_shape # <<>>
           /\ Last(c_shape) = (IF transB = 0 THEN b_shape[2] ELSE b_shape[1])

\* The Gemm nodes with a bias C the walk of GetSupportedNodes has judged.
JudgedGemmNodes ==
  { p \in 1..NumNodes(graph) :
      /\ p < node_pos \/ partitions # <<>>
      /\ NodeAt(graph, p).op = "Gemm"
      /\ Len(NodeAt(graph, p).in) = 3 }

\* C19: a Gemm node with rank-2 non-empty A and B and a bias C passes
\* SupportCheck exactly when C is a scalar or its trailing dimension is B's
\* second dimension (transB = 0) or B's first dimension (any other transB).
C19_GemmBiasLegality ==
  \A p \in JudgedGemmNodes :
    IsOpSupportedImpl(graph, NodeAt(graph, p)) <=> GemmBiasLegal(graph, NodeAt(graph, p))

C19_Witness ==
  /\ Len(partitions) = 1
  /\ \E p \in JudgedGemmNodes :
       /\ NodeAt(graph, p).in = <<"GA", "B43", "C4">>
       /\ Get(NodeAt(graph, p), "transB", 0) = 1
       /\ IsOpSupportedImpl(graph, NodeAt(graph, p))
       /\ graph.topo[p] \in Elems(Flatten(partitions[1]))

(***************************************************************************)
(* Compilations of one Conv, ConvTranspose, Range or GRU node, over a      *)
(* range of attributes, shapes and initializer values.                     *)
(***************************************************************************)
AttrChoices(name, values) == {NoAttrs} \cup {[a \in {name} |-> v] : v \in values}

ConvPads == {<<0, 0, 0, 0>>, <<1, 1, 1, 1>>, <<0, 0, 1, 1>>, <<1, 1, 0, 0>>, <<1, 0, 1, 0>>}
ConvStrides == {<<1, 1>>, <<2, 2>>}
ConvDilations == {<<1, 1>>, <<2, 2>>}

\* ONNX does not allow pads together with an auto_pad other than NOTSET.
ConvAttrs ==
  { p @@ a @@ s @@ d : p \in AttrChoices("pads", ConvPads),
                       a \in AttrChoices("auto_pad", {"NOTSET"}),
                       s \in AttrChoices("strides", ConvStrides),
                       d \in AttrChoices("dilations", ConvDilations) }
  \cup
  { a @@ s @@ d : a \in {[auto_pad |-> v] : v \in {"SAME_UPPER", "SAME_LOWER", "VALID"}},
                  s \in AttrChoices("strides", ConvStrides),
                  d \in AttrChoices("dilations", ConvDilations) }

ConvNodes ==
  { Node(5, "conv", op, <<x, w>>, <<"c">>, attrs) :
      op \in {"Conv", "ConvTranspose"}, x \in {"X", "X4", "X5"},
      w \in {"W", "W2", "W3"}, attrs \in ConvAttrs }

\* Values of start and limit, and of delta, of a Range node.
RangeValues == {-2, 0, 1, 5, 2^24, 2^24 + 1}
RangeDeltas == {-2, -1, 1, 2, 3}

RangeData(names, s, l, d) ==
  [n \in DOMAIN TensorData |->
     IF n = names[1] THEN <<s>>
     ELSE IF n = names[2] THEN <<l>>
     ELSE IF n = names[3] THEN <<d>>
     ELSE TensorData[n]]

RangeGraph(names, s, l, d) ==
  [MakeGraph(<<Node(7, "range", "Range", names, <<"rg">>, NoAttrs)>>, FALSE)
     EXCEPT !.data = RangeData(names, s, l, d)]

\* A Range node over int64 initializers, or over float initializers (whose
\* values are floats).
RangeGraphs ==
  { RangeGraph(<<"si", "li", "di">>, s, l, d) :
      s \in RangeValues, l \in RangeValues, d \in RangeDeltas }
  \cup
  { RangeGraph(<<"sf", "lf", "df">>, s, l, d) :
      s \in {v \in RangeValues : ToFloat(v) = v},
      l \in {v \in RangeValues : ToFloat(v) = v}, d \in RangeDeltas }

\* GRU nodes: with a bias that is an initializer (GB), with a bias that is
\* a graph input (XB), and without bias.
GruActivationLists ==
  {<<"Sigmoid", "Tanh">>, <<"Relu", "Tanh">>, <<"Tanh", "Relu">>, <<"Sigmoid", "HardSigmoid">>}

GruNodes ==
  { Node(4, "gru", "GRU", <<"X", "GW", "GR">> \o rest, <<"gy", "gh">>, attrs) :
      rest \in {<<>>, <<"GB">>, <<"XB">>, <<"GB", "SL">>, <<"XB", "SL">>, <<"XB", "SLI">>},
      attrs \in AttrChoices("activations", GruActivationLists) }

TranslatorGraphs ==
  {MakeGraph(<<n>>, FALSE) : n \in ConvNodes \cup GruNodes} \cup RangeGraphs

TranslatorInit ==
  /\ graph \in TranslatorGraphs
  /\ InitBuilder
  /\ wasmThreads = FALSE
  /\ InitPredict
  /\ InitPartition

SpecTranslators == TranslatorInit /\ [][Next]_vars

\* The node of the graph, and the operand its lowering registered.
TheNode == NodeAt(graph, 1)
NodeLowered(kinds) ==
  /\ lowered = <<TheNode.idx>>
  /\ TheNode.out[1] \in DOMAIN operands
  /\ operands[TheNode.out[1]].kind \in kinds
ConvLowered == NodeLowered({"conv2d", "convTranspose2d"})
ConvOptions == operands[TheNode.out[1]].opts

ZeroPadsDefaultAutoPad(node) ==
  /\ Get(node, "pads", <<0, 0, 0, 0>>) = <<0, 0, 0, 0>>
  /\ Get(node, "auto_pad", "NOTSET") = "NOTSET"

\* The SAME padding of the node, for the given mode.
SamePadding(g, node, mode) ==
  ComputeConvPads(Dims(g, node.in[1]), Dims(g, node.in[2])[3], Dims(g, node.in[2])[4],
                  Get(node, "strides", <<1, 1>>), mode)

\* The pads of the node are its SAME padding for the mode (the SAME padding
\* exists for unit dilations).
PadsAreSame(g, node, mode) ==
  /\ Get(node, "auto_pad", "NOTSET") = "NOTSET"
  /\ Get(node, "dilations", <<1, 1>>) = <<1, 1>>
  /\ Get(node, "pads", <<0, 0, 0, 0>>) = SamePadding(g, node, mode)

ExplicitPadding(opts, pads) ==
  /\ "padding" \in DOMAIN opts
  /\ opts.padding = pads
  /\ "autoPad" \notin DOMAIN opts

AutoPadding(opts, mode) ==
  /\ "autoPad" \in DOMAIN opts
  /\ opts.autoPad = mode
  /\ "padding" \notin DOMAIN opts

\* Pads that are the SAME padding give the matching autoPad and no padding.
SamePadsGiveAutoPad ==
  /\ PadsAreSame(graph, TheNode, "SAME_UPPER") => AutoPadding(ConvOptions, "same-upper")
  /\ (PadsAreSame(graph, TheNode, "SAME_LOWER") /\ ~PadsAreSame(graph, TheNode, "SAME_UPPER"))
       => AutoPadding(ConvOptions, "same-lower")

C18_RangeLength ==
  NodeLowered({"cast"}) =>
    LET start == graph.data[TheNode.in[1]][1]
        limit == graph.data[TheNode.in[2]][1]
        delta == graph.data[TheNode.in[3]][1]
        shape == operands[TheNode.out[1]].args[1].opts.shape
    IN /\ shape = <<Max(0, CeilDiv(limit - start, delta))>>
       /\ shape[1] >= 0

\* C20: the backend GRU call of a lowered GRU node with a fourth input has
\* the two halves of that input, split along axis 1, as bias and
\* recurrentBias.
C20_GruBiasSplit ==
  (NodeLowered({"gru"}) /\ Len(TheNode.in) > 3) =>
    LET options == operands[TheNode.out[1]].opts.options
        half(k) == Operand("split", <<operands[TheNode.in[4]]>>,
                           [splits |-> 2, axis |-> 1, part |-> k])
    IN /\ TheNode.in[4] \in DOMAIN operands
       /\ options.bias = half(0)
       /\ options.recurrentBias = half(1)

\* AddOperations is over for the node of the graph: lowered, or failed.
LoweringFailed == pc = "Failed" /\ phaseLog # <<>> /\ Last(phaseLog) = "AddOperations"
GruLowered == NodeLowered({"gru"})

\* C21: the activations of a GRU node, {Sigmoid, Tanh} when the attribute
\* is absent, are mapped in their order to backend activation operators
\* when each is Relu, Sigmoid or Tanh, and lowering fails exactly when one
\* is none of these; a node without the attribute lowers with the
\* operators of Sigmoid and Tanh.
C21_GruActivationMapping ==
  (TheNode.op = "GRU" /\ (GruLowered \/ LoweringFailed)) =>
    LET acts == Get(TheNode, "activations", <<"Sigmoid", "Tanh">>) IN
    IF \A i \in DOMAIN acts : acts[i] \in {"Relu", "Sigmoid", "Tanh"}
    THEN /\ GruLowered
         /\ operands[TheNode.out[1]].opts.options.activations =
              [i \in DOMAIN acts |-> GruActivationOperator(acts[i])]
    ELSE /\ LoweringFailed
         /\ status.kind = "UnsupportedActivation"

(***************************************************************************)
(* The provider's use of the two layers on one host graph: the walk of     *)
(* GetSupportedNodes first, then Compile of the graph when the walk put    *)
(* all its nodes in one group.                                             *)
(***************************************************************************)
GruStepNodes ==
  { Node(4, "gru", "GRU", <<"X3", "GW", "GR">> \o rest, <<"gy", "gh">>, GruActs) :
      rest \in {<<>>, <<"GB">>, <<"GB", "SL">>, <<"GB", "SL2">>, <<"GB", "SLD">>, <<"GB", "SLI">>} }

BatchNormNodes ==
  { Node(6, "bnorm", "BatchNormalization", <<x, scale, b, mean, var>>, out, attrs) :
      x \in {"X", "X3", "XD", "XS", "XN"},
      scale \in {"B", "XB"}, b \in {"B", "XB"}, mean \in {"B", "XB"}, var \in {"B", "XB"},
      out \in {<<"bn">>, <<"bn", "bm">>},
      attrs \in AttrChoices("spatial", {0, 1}) }

\* GRU nodes that declare both outputs, Y alone, or Y_h alone (the name
\* of an output that is left out is empty).
GruOutputNodes ==
  { Node(4, "gru", "GRU", <<"X3", "GW", "GR">>, out, GruActs) :
      out \in {<<"gy", "gh">>, <<"gy">>, <<"", "gh">>} }

ProviderNodes == GruStepNodes \cup BatchNormNodes \cup GemmNodes \cup GruOutputNodes

\* Two GRU nodes that both leave Y out.
TwoGruNodes ==
  << Node(4, "gru", "GRU", <<"X3", "GW", "GR">>, <<"", "gh">>, GruActs),
     Node(5, "gru2", "GRU", <<"X3", "GW", "GR", "GB">>, <<"", "gh2">>, GruActs) >>

ProviderGraphs ==
  { MakeGraph(<<n>>, FALSE) : n \in ProviderNodes } \cup { MakeGraph(TwoGruNodes, FALSE) }

ProviderInit ==
  /\ graph \in ProviderGraphs
  /\ InitBuilder
  /\ wasmThreads = FALSE
  /\ InitPredict
  /\ InitPartition

Accepted == partitions # <<>> /\ partitions[1] = <<graph.topo>>

ProviderNext ==
  \/ partitions = <<>> /\ GetSupportedNodes
  \/ Accepted /\ Next

SpecProvider == ProviderInit /\ [][ProviderNext]_vars

GruSequenceLens == IF Len(TheNode.in) > 4 THEN TheNode.in[5] ELSE "none"
GruOptions == operands[TheNode.out[1]].opts.options

\* C22: a GRU node that the support check accepted is lowered with steps
\* equal to the common value of its sequence_lens initializer, all of
\* whose values are the same, or, without such an initializer, to the
\* leading dimension of its input; a sequence_lens initializer with two
\* different values makes the support check return false.
C22_GruSteps ==
  TheNode.op = "GRU" =>
    LET sl == GruSequenceLens
        isInit == sl \in graph.inits
        same == \A i, j \in DOMAIN graph.data[sl] : graph.data[sl][i] = graph.data[sl][j]
    IN /\ (isInit /\ ~same) => ~GruIsOpSupportedImpl(graph, TheNode)
       /\ GruLowered =>
            IF isInit
            THEN same /\ GruOptions.steps = graph.data[sl][1]
            ELSE GruOptions.steps = graph.info[TheNode.in[1]].shape[1]

C22_Witness ==
  /\ TheNode.op = "GRU"
  /\ GruLowered
  /\ GruSequenceLens \in graph.inits
  /\ Len(graph.data[GruSequenceLens]) > 1
  /\ GruOptions.steps # graph.info[TheNode.in[1]].shape[1]

\* The walk of the support checks has judged the node of the graph.
Judged == partitions # <<>>

\* C25: the support check of BatchNormalization returns true exactly when
\* the node has one output, its first input has a static shape of rank 4,
\* spatial is absent or 1, and scale, bias, mean and variance are each an
\* initializer; otherwise it returns false.
C25_BatchNormSupport ==
  (TheNode.op = "BatchNormalization" /\ Judged) =>
    LET shape == graph.info[TheNode.in[1]].shape
        legal ==
          /\ Len(TheNode.out) = 1
          /\ shape # NoShape
          /\ NoDim \notin Elems(shape)
          /\ Len(shape) = 4
          /\ ("spatial" \in DOMAIN TheNode.attrs => TheNode.attrs.spatial = 1)
          /\ \A k \in 2..5 : TheNode.in[k] \in graph.inits
    IN /\ IsOpSupportedImpl(graph, TheNode) \in BOOLEAN
       /\ IsOpSupportedImpl(graph, TheNode) <=> legal

C25_Witness ==
  /\ TheNode.op = "BatchNormalization"
  /\ Judged
  /\ Accepted
  /\ "spatial" \in DOMAIN TheNode.attrs

GemmLowered == NodeLowered({"gemm"})

\* C29: for a Gemm node with any integer transB, the support check
\* compares the trailing dimension of C with the first dimension of B
\* exactly when the lowering passes bTranspose = true, and with the second
\* dimension of B exactly when it passes bTranspose = false.
C29_GemmTransposeAgreement ==
  (TheNode.op = "Gemm" /\ GemmLowered) =>
    LET b_shape == graph.info[TheNode.in[2]].shape
        transB == Get(TheNode, "transB", 0)
        bTranspose == operands[TheNode.out[1]].opts.bTranspose
    IN /\ (GemmBiasDim(transB, b_shape) = b_shape[1]) <=> bTranspose
       /\ (GemmBiasDim(transB, b_shape) = b_shape[2]) <=> ~bTranspose

\* C26: the lowering of an accepted GRU node registers the second result
\* of the backend call under the node's first output name and the first
\* result under its second output name, and registers an operand for
\* every output the node declares, be it one or two.
C26_GruOutputs ==
  (TheNode.op = "GRU" /\ Accepted /\ NumNodes(graph) = 1
     /\ (lowered # <<>> \/ LoweringFailed)) =>
    /\ GruLowered
    /\ operands[TheNode.out[1]].opts.result = 1
    /\ \A k \in DOMAIN TheNode.out :
          /\ TheNode.out[k] \in DOMAIN operands
          /\ operands[TheNode.out[k]].kind = "gru"
    /\ Len(TheNode.out) > 1 => operands[TheNode.out[2]].opts.result = 0

\* C23: the map from names to operands only grows during a compilation: no
\* step binds a name that is already in it to another operand, and none
\* removes an entry.
C23_OperandsAppendOnly ==
  [][\A n \in DOMAIN operands : n \in DOMAIN operands' /\ operands'[n] = operands[n]]_vars

\* C24: a Predict call that returns a type-mismatch error leaves the
\* buffers bound to the model's inputs and outputs as they were when the
\* call began: it has bound no buffer and copied none in.
C24_FailedPredictLeavesBindings ==
  \A t \in Threads :
    (tpc[t] = "Return" /\ result[t] = TypeMismatch) => Bound = call[t].bound

(***************************************************************************)
(* Availability of operators in the backend: CheckSingleOp and             *)
(* CheckDependency of helper.h, called with an operator type on a backend  *)
(* builder that exposes some functions.                                    *)
(***************************************************************************)
\* std::unordered_map::operator[]: the map after m[k], which has a
\* value-initialized entry for a key it did not have.
Subscripted(m, k, empty) == IF k \in DOMAIN m THEN m ELSE Put(m, k, empty)

\* op_map.find(op_type) != op_map.end() && wnn_builder_[op_map[op_type]]:
\* the value, and op_map after it.
Found(m, op_type) == op_type \in DOMAIN m
CheckSingleOp(m, functions, op_type) ==
  IF Found(m, op_type)
  THEN LET after == Subscripted(m, op_type, "") IN
       [value |-> after[op_type] \in functions, op_map |-> after]
  ELSE [value |-> FALSE, op_map |-> m]

\* The loop of CheckDependency over the operators op_type depends on.
RECURSIVE CheckDependencies(_, _, _)
CheckDependencies(m, functions, ops) ==
  IF ops = <<>> THEN [value |-> TRUE, op_map |-> m]
  ELSE LET one == CheckSingleOp(m, functions, Head(ops)) IN
       IF ~one.value THEN one
       ELSE CheckDependencies(one.op_map, functions, Tail(ops))

CheckSingleOpCall(op_type) ==
  LET r == CheckSingleOp(op_map, wnn_functions, op_type) IN
  /\ op_map' = r.op_map
  /\ checked' = [fn |-> "CheckSingleOp", op_type |-> op_type, result |-> r.value]
  /\ UNCHANGED <<op_dependency, wnn_functions>>
  /\ UNCHANGED <<builderVars, model, predictVars, supported_node_groups,
                 supported_node_group, node_pos, partitions>>

CheckDependency(op_type) ==
  LET one == CheckSingleOp(op_map, wnn_functions, op_type) IN
  /\ IF ~one.value
     THEN /\ op_map' = one.op_map
          /\ checked' = [fn |-> "CheckDependency", op_type |-> op_type, result |-> FALSE]
          /\ UNCHANGED op_dependency
     ELSE IF Contains(DOMAIN op_dependency, op_type)
     THEN LET deps == Subscripted(op_dependency, op_type, <<>>)
              all == CheckDependencies(one.op_map, wnn_functions, deps[op_type])
          IN /\ op_dependency' = deps
             /\ op_map' = all.op_map
             /\ checked' = [fn |-> "CheckDependency", op_type |-> op_type,
                             result |-> all.value]
     ELSE /\ op_map' = one.op_map
          /\ checked' = [fn |-> "CheckDependency", op_type |-> op_type, result |-> TRUE]
          /\ UNCHANGED op_dependency
  /\ UNCHANGED wnn_functions
  /\ UNCHANGED <<builderVars, model, predictVars, supported_node_groups,
                 supported_node_group, node_pos, partitions>>

\* Functions a backend builder may expose, and the operator types asked
\* about: types of op_map, Split and Range, which op_map does not list,
\* and a type no translator knows.
BackendFunctions == {"gru", "split", "relu", "conv2d", "averagePool2d"}
OpTypes == {"GRU", "Relu", "Conv", "AveragePool", "GlobalAveragePool", "Split", "Range", "Foo"}

HelperInit ==
  /\ graph = MakeGraph(TwoGruNodes, FALSE)
  /\ InitBuilder
  /\ wasmThreads = FALSE
  /\ InitPredict
  /\ InitWalk
  /\ InitTables
  /\ wnn_functions \in SUBSET BackendFunctions

HelperNext ==
  \/ \E op_type \in OpTypes : CheckSingleOpCall(op_type)
  \/ \E op_type \in OpTypes : CheckDependency(op_type)

SpecHelper == HelperInit /\ [][HelperNext]_vars

\* The function of the backend that carries out an operator type.
BackendFunction(op_type) == IF op_type = "Split" THEN "split" ELSE OpMap[op_type]
Dependencies(op_type) ==
  IF op_type \in DOMAIN OpDependency THEN Elems(OpDependency[op_type]) ELSE {}

\* C28: for an operator type of op_map, CheckDependency returns true when
\* the backend exposes the function of the operator and those of all the
\* operators it depends on (GRU is available on a backend with gru and
\* split) and false when it lacks one of them; CheckSingleOp and
\* CheckDependency leave op_map and op_dependency as they are.
C28_CheckDependency ==
  /\ op_map = OpMap
  /\ op_dependency = OpDependency
  /\ (checked.fn = "CheckDependency" /\ checked.op_type \in DOMAIN OpMap) =>
       (checked.result <=>
          \A op \in {checked.op_type} \cup Dependencies(checked.op_type) :
             BackendFunction(op) \in wnn_functions)

\* C27: every Relu or LeakyRelu node that was lowered is applied once:
\* either its producer fused the activation operator of this very node and
\* the node passes its input operand through, or its input is not marked
\* as fused and the node emits its own backend operation on it.
C27_ActivationAppliedOnce ==
  \A i \in Elems(lowered) :
    graph.nodes[i].op \in {"Relu", "LeakyRelu"} =>
      LET t == graph.nodes[i].in[1]
          o == graph.nodes[i].out[1]
      IN \/ /\ t \in fused_activations
            /\ operands[t].opts.activation = activation_nodes[i]
            /\ operands[o] = operands[t]
         \/ /\ t \notin fused_activations
            /\ operands[o].kind = (IF graph.nodes[i].op = "Relu" THEN "relu" ELSE "leakyRelu")
            /\ operands[o].args = <<operands[t]>>

\* The operands a step of Initialize registers: constants, inputs, and what
\* the lowering of a node binds to its outputs.
RegisteredByLowering(name) ==
  \E i \in Elems(lowered) : name \in Elems(graph.nodes[i].out)
Registered(name) ==
  /\ name \in DOMAIN operands
  /\ operands[name] # NullOperand
  /\ operands[name].kind \in {"constant", "input"} \/ RegisteredByLowering(name)

\* C30: when Compile reaches Build, and after it, every graph output name
\* handed to the backend has an operand that initializer registration,
\* input registration or the lowering of a node registered: none is a
\* default-constructed operand.
C30_OutputsRegisteredAtBuild ==
  (pc = "Build" \/ buildCalls > 0) =>
    \A k \in DOMAIN output_names : Registered(output_names[k])

C30_Witness ==
  /\ buildCalls > 0
  /\ model.assigned
  /\ Len(output_names) > 1
  /\ \E k \in DOMAIN output_names : operands[output_names[k]] \in
        {operands[n] : n \in DOMAIN operands \ {output_names[k]}}
====
